---- MODULE Spec2Model ----
(***************************************************************************)
(* A model of aqt/metadata.py: the metadata-resolution engine of           *)
(* aqtinstall (MetadataFactory and the helpers around it).                 *)
(*                                                                         *)
(* One call is in progress at a time (the engine is synchronous).  The     *)
(* state is                                                                *)
(*   pc       the control point of the call in progress                    *)
(*   meta     the MetadataFactory instance (archive_id, spec, base_url,    *)
(*            request_type)                                                *)
(*   settings the global Settings the engine reads                         *)
(*   args     the arguments of the call in progress                        *)
(*   frame    the local variables of the call in progress                  *)
(*   net      the network requests of the call, in the order issued        *)
(*   ret      what the call returned or raised                             *)
(***************************************************************************)
EXTENDS Integers, Sequences, FiniteSets, TLC

VARIABLES pc, meta, settings, args, frame, net, ret

vars == <<pc, meta, settings, args, frame, net, ret>>

\* Python's None. Every value that may be None is a record, so that the two compare.
None == [none |-> TRUE]

NoArgs == [op |-> "none"]
NoFrame == [op |-> "none"]
NoRet == [kind |-> "none"]

Returned(value) == [kind |-> "return", value |-> value]
Raised(exc) == [kind |-> "raise", exc |-> exc]

\* The exception kinds getUrl can raise: the two the handler names, and any
\* other exception.
DownloadError == "ArchiveDownloadError"
ConnectionError == "ArchiveConnectionError"
OtherError == "OtherError"
TransportErrors == {DownloadError, ConnectionError, OtherError}

\* An exception object: its type, and the request that raised it (0 for an
\* exception that no request raised).
Exc(type, request) == [type |-> type, request |-> request]

\* The Settings the engine reads: the fallback mirrors, whether hashes are
\* ignored, and the least size of a module that counts.
Settings(fallbacks) == [fallbacks |-> fallbacks, ignore_hash |-> FALSE, min_module_size |-> 41]

\* The call in progress has ended: it returned a value or raised.
Done == pc = "done"

\* A call that leaves the instance without its spec.
CallEndsWithoutSpec ==
    /\ pc = "done"
    /\ pc' = "idle"
    /\ args' = NoArgs
    /\ frame' = NoFrame
    /\ net' = <<>>
    /\ ret' = NoRet
    /\ meta' = [meta EXCEPT !.spec = None]
    /\ UNCHANGED settings

\* The caller takes the result; the engine is ready for the next call.
CallEnds ==
    /\ pc = "done"
    /\ pc' = "idle"
    /\ args' = NoArgs
    /\ frame' = NoFrame
    /\ net' = <<>>
    /\ ret' = NoRet
    /\ UNCHANGED <<meta, settings>>

(***************************************************************************)
(* Bounds of the model.                                                    *)
(***************************************************************************)
\* The hosts are 0..NumMirrors: base_url and the members of Settings.fallbacks
\* are drawn from them.
NumMirrors == 2
\* Distinct page contents a host may serve.
NumContents == 2

Hosts == 0..NumMirrors
Contents == {[text |-> k] : k \in 1..NumContents}
HashValues == {[digest |-> "A"], [digest |-> "B"]}
Paths == {"online/qtsdkrepository/linux_x64/desktop/", "online/qtsdkrepository/linux_x64/desktop/qt6_680/Updates.xml"}

(***************************************************************************)
(* Strings are sequences of one-character strings.                         *)
(***************************************************************************)
DigitChars == {"0", "1", "2", "3", "4", "5", "6", "7", "8", "9"}

\* str.isdigit, of one character
IsDigit(ch) == ch \in DigitChars

DigitValue(ch) ==
    CASE ch = "0" -> 0 [] ch = "1" -> 1 [] ch = "2" -> 2 [] ch = "3" -> 3 [] ch = "4" -> 4
      [] ch = "5" -> 5 [] ch = "6" -> 6 [] ch = "7" -> 7 [] ch = "8" -> 8 [] ch = "9" -> 9

DigitChar(d) == CHOOSE ch \in DigitChars : DigitValue(ch) = d

\* int(s) raises ValueError unless s is a non-empty run of digits (the strings
\* of the model hold no sign and no blank).
ParsesAsInt(s) == s # <<>> /\ \A k \in 1..Len(s) : IsDigit(s[k])

\* int(s), for s a run of digits
RECURSIVE IntOf(_)
IntOf(s) == IF s = <<>> THEN 0 ELSE 10 * IntOf(SubSeq(s, 1, Len(s) - 1)) + DigitValue(s[Len(s)])

\* str(n), for a natural number n
RECURSIVE StrOfInt(_)
StrOfInt(n) == IF n < 10 THEN <<DigitChar(n)>> ELSE StrOfInt(n \div 10) \o <<DigitChar(n % 10)>>

\* s.split(sep, maxsplit) for a one-character sep; maxsplit = -1 is no limit
RECURSIVE SplitMax(_, _, _)
SplitMax(s, sep, maxsplit) ==
    IF maxsplit = 0 \/ \A k \in 1..Len(s) : s[k] # sep
    THEN <<s>>
    ELSE LET at == CHOOSE k \in 1..Len(s) : s[k] = sep /\ \A j \in 1..(k - 1) : s[j] # sep
         IN  <<SubSeq(s, 1, at - 1)>> \o SplitMax(SubSeq(s, at + 1, Len(s)), sep, maxsplit - 1)

Split(s, sep) == SplitMax(s, sep, -1)

\* All strings over an alphabet, of length at most n.
RECURSIVE StringsUpTo(_, _)
StringsUpTo(alphabet, n) ==
    IF n = 0 THEN {<<>>}
    ELSE LET shorter == StringsUpTo(alphabet, n - 1)
         IN  shorter \union {Append(s, ch) : s \in shorter, ch \in alphabet}

(***************************************************************************)
(* Version (aqt.repository.Version, a semantic_version.Version)            *)
(***************************************************************************)
\* Version("{major}.{minor}.{patch}") and Version("{major}.{minor}.{patch}.dev0"):
\* the second carries a prerelease marker.
MakeVersion(major, minor, patch, is_preview) ==
    [major |-> major, minor |-> minor, patch |-> patch, prerelease |-> is_preview]

\* The order of versions: by major, minor and patch, a prerelease below the
\* release of the same numbers.
VersionLess(a, b) ==
    \/ a.major < b.major
    \/ a.major = b.major /\ a.minor < b.minor
    \/ a.major = b.major /\ a.minor = b.minor /\ a.patch < b.patch
    \/ a.major = b.major /\ a.minor = b.minor /\ a.patch = b.patch /\ a.prerelease /\ ~b.prerelease

VersionLeq(a, b) == a = b \/ VersionLess(a, b)

(***************************************************************************)
(* get_semantic_version                                                    *)
(***************************************************************************)
\* A decoder that reads one digit of minor from every packed string.
PackedPartsOneDigitMinor(qt_ver) ==
    IF Len(qt_ver) >= 3
    THEN <<SubSeq(qt_ver, 1, 1), SubSeq(qt_ver, 2, 2), SubSeq(qt_ver, 3, Len(qt_ver))>>
    ELSE <<SubSeq(qt_ver, 1, 1), SubSeq(qt_ver, 2, 2), <<"0">>>>

\* lines 142-147: the slices of a packed string of two or more digits that
\* are major, minor and patch (a missing patch is 0)
PackedParts(qt_ver) ==
    IF Len(qt_ver) >= 4
    THEN <<SubSeq(qt_ver, 1, 1), SubSeq(qt_ver, 2, 3), SubSeq(qt_ver, 4, Len(qt_ver))>>
    ELSE IF Len(qt_ver) = 3
    THEN <<SubSeq(qt_ver, 1, 1), SubSeq(qt_ver, 2, 2), SubSeq(qt_ver, 3, 3)>>
    ELSE <<SubSeq(qt_ver, 1, 1), SubSeq(qt_ver, 2, 2), <<"0">>>>

\* lines 118-159; a ValueError of int() is caught and gives None
get_semantic_version(qt_ver, is_preview) ==
    IF qt_ver = <<>> THEN None
    ELSE IF \E k \in 1..Len(qt_ver) : qt_ver[k] = "_"
    THEN LET parts == Split(qt_ver, "_")
         IN  IF Len(parts) < 2 \/ Len(parts) > 3 THEN None
             ELSE IF ~ParsesAsInt(parts[1]) THEN None
             ELSE IF ~ParsesAsInt(parts[2]) THEN None
             ELSE IF Len(parts) = 3 /\ ~ParsesAsInt(parts[3]) THEN None
             ELSE MakeVersion(IntOf(parts[1]), IntOf(parts[2]),
                              IF Len(parts) = 3 THEN IntOf(parts[3]) ELSE 0, is_preview)
    ELSE IF \E k \in 1..Len(qt_ver) : ~IsDigit(qt_ver[k]) THEN None
    ELSE IF Len(qt_ver) >= 2
    THEN LET p == PackedParts(qt_ver)
         IN  MakeVersion(IntOf(p[1]), IntOf(p[2]), IntOf(p[3]), is_preview)
    ELSE None

\* The characters and the length of the fragments decoded in the model.
FragmentChars == {"0", "1", "2", "5", "_", "a"}
MaxFragmentLen == 5
Fragments == StringsUpTo(FragmentChars, MaxFragmentLen)

Call_get_semantic_version(qt_ver, is_preview) ==
    /\ pc = "idle"
    /\ pc' = "done"
    /\ args' = [op |-> "get_semantic_version", qt_ver |-> qt_ver, is_preview |-> is_preview]
    /\ ret' = Returned(get_semantic_version(qt_ver, is_preview))
    /\ UNCHANGED <<meta, settings, frame, net>>

InitCodec ==
    /\ pc = "idle"
    /\ meta = None
    /\ settings = Settings({})
    /\ args = NoArgs
    /\ frame = NoFrame
    /\ net = <<>>
    /\ ret = NoRet

NextCodec ==
    \/ pc = "idle" /\ \E qt_ver \in Fragments, is_preview \in BOOLEAN : Call_get_semantic_version(qt_ver, is_preview)
    \/ CallEnds

SpecCodec == InitCodec /\ [][NextCodec]_vars

(***************************************************************************)
(* More of Python's str, posixpath and urllib.parse, on the strings of     *)
(* the model (letters, digits, "_", ".", "/", ":", "-", "," and " ").      *)
(***************************************************************************)
LetterChars == {"a", "b", "c", "d", "e", "f", "g", "h", "i", "j", "k", "l", "m",
                "n", "o", "p", "q", "r", "s", "t", "u", "v", "w", "x", "y", "z"}

\* s.startswith(prefix)
StartsWith(s, prefix) == Len(prefix) <= Len(s) /\ SubSeq(s, 1, Len(prefix)) = prefix

\* s.endswith(suffix)
EndsWith(s, suffix) == Len(suffix) <= Len(s) /\ SubSeq(s, Len(s) - Len(suffix) + 1, Len(s)) = suffix

\* sub in s
Contains(s, sub) == \E k \in 0..(Len(s) - Len(sub)) : SubSeq(s, k + 1, k + Len(sub)) = sub

\* sep.join(parts), for a one-character sep
RECURSIVE Join(_, _)
Join(parts, sep) ==
    IF parts = <<>> THEN <<>>
    ELSE IF Len(parts) = 1 THEN parts[1]
    ELSE parts[1] \o <<sep>> \o Join(Tail(parts), sep)

\* The leading "/" of path that posixpath.normpath keeps: one, or two when the
\* path starts with exactly two.
InitialSlashes(path) ==
    IF ~StartsWith(path, <<"/">>) THEN 0
    ELSE IF StartsWith(path, <<"/", "/">>) /\ ~StartsWith(path, <<"/", "/", "/">>) THEN 2
    ELSE 1

\* The loop of posixpath.normpath over the components of the path.
RECURSIVE NormComps(_, _, _)
NormComps(comps, new_comps, initial_slashes) ==
    IF comps = <<>> THEN new_comps
    ELSE LET comp == Head(comps)
             kept ==
                IF comp = <<>> \/ comp = <<".">> THEN new_comps
                ELSE IF \/ comp # <<".", ".">>
                        \/ (initial_slashes = 0 /\ new_comps = <<>>)
                        \/ (new_comps # <<>> /\ new_comps[Len(new_comps)] = <<".", ".">>)
                THEN Append(new_comps, comp)
                ELSE IF new_comps # <<>> THEN SubSeq(new_comps, 1, Len(new_comps) - 1)
                ELSE new_comps
         IN  NormComps(Tail(comps), kept, initial_slashes)

\* posixpath.normpath
normpath(path) ==
    IF path = <<>> THEN <<".">>
    ELSE LET initial_slashes == InitialSlashes(path)
             joined == Join(NormComps(Split(path, "/"), <<>>, initial_slashes), "/")
             full == [k \in 1..initial_slashes |-> "/"] \o joined
         IN  IF full = <<>> THEN <<".">> ELSE full

\* urllib.parse.urlparse, for a URL without "?", "#" and ";": the scheme is
\* what precedes the first ":" when that is a letter followed by scheme
\* characters, the network location is what follows a leading "//" up to the
\* next "/", and the path is the rest.
SchemeChars == LetterChars \union DigitChars \union {"+", "-", "."}

urlparse(url) ==
    LET colons == {k \in 1..Len(url) : url[k] = ":"}
        i == IF colons = {} THEN 0 ELSE CHOOSE k \in colons : \A j \in colons : k <= j
        has_scheme == /\ i > 1
                      /\ url[1] \in LetterChars
                      /\ \A k \in 1..(i - 1) : url[k] \in SchemeChars
        scheme == IF has_scheme THEN SubSeq(url, 1, i - 1) ELSE <<>>
        rest == IF has_scheme THEN SubSeq(url, i + 1, Len(url)) ELSE url
        has_netloc == StartsWith(rest, <<"/", "/">>)
        after == SubSeq(rest, 3, Len(rest))
        slashes == {k \in 1..Len(after) : after[k] = "/"}
        cut == IF slashes = {} THEN Len(after) + 1 ELSE CHOOSE k \in slashes : \A j \in slashes : k <= j
    IN  [scheme |-> scheme,
         netloc |-> IF has_netloc THEN SubSeq(after, 1, cut - 1) ELSE <<>>,
         path |-> IF has_netloc THEN SubSeq(after, cut, Len(after)) ELSE rest]

(***************************************************************************)
(* MetadataFactory.iterate_folders                                         *)
(* An HTML page is the sequence of its <a> tags, in document order, or a   *)
(* page the parser raises on.  A tag has an href attribute or none.        *)
(***************************************************************************)
Anchor(href) == [has_href |-> TRUE, href |-> href]
AnchorWithoutHref == [has_href |-> FALSE, href |-> <<>>]
Page(links) == [parses |-> TRUE, links |-> links]
Malformed == [parses |-> FALSE, links |-> <<>>]

\* line 560: str(link.get("href", default=""))
RawUrl(link) == IF link.has_href THEN link.href ELSE <<>>

Str_tools == <<"t", "o", "o", "l", "s">>
Str_sdktool == <<"s", "d", "k", "t", "o", "o", "l">>
Str_qt == <<"q", "t">>
Str_qt6 == <<"q", "t", "6">>

\* A link_to_folder that does not look at the scheme and the network location.
link_to_folder_any_host(link) ==
    LET raw_url == RawUrl(link)
        url_path == normpath(urlparse(raw_url).path)
    IN  IF Contains(url_path, <<"/">>) \/ url_path = <<".">> \/ url_path = <<".", ".">>
        THEN <<>>
        ELSE url_path

\* lines 559-567
link_to_folder(link) ==
    LET raw_url == RawUrl(link)
        url == urlparse(raw_url)
        url_path == normpath(url.path)
    IN  IF url.scheme # <<>> \/ url.netloc # <<>> THEN <<>>
        ELSE IF Contains(url_path, <<"/">>) \/ url_path = <<".">> \/ url_path = <<".", ".">>
        THEN <<>>
        ELSE url_path

\* lines 573-578: what the loop body yields for one folder
YieldsOf(folder, filter_category) ==
    IF folder = <<>> THEN <<>>
    ELSE (IF StartsWith(folder, filter_category) THEN <<folder>> ELSE <<>>)
         \o (IF filter_category = Str_tools /\ folder = Str_sdktool THEN <<folder>> ELSE <<>>)

\* lines 571-578: the folders the generator yields, in order
RECURSIVE FoldersOf(_, _)
FoldersOf(links, filter_category) ==
    IF links = <<>> THEN <<>>
    ELSE YieldsOf(link_to_folder(Head(links)), filter_category)
         \o FoldersOf(Tail(links), filter_category)

\* lines 558-586: the generator run to its end; an exception while parsing is
\* raised as an ArchiveConnectionError
iterate_folders(html_doc, filter_category) ==
    IF ~html_doc.parses
    THEN Raised(Exc(ConnectionError, 0))
    ELSE Returned(FoldersOf(html_doc.links, filter_category))

\* The anchors and the filters of the pages iterated in the model.
Href_evil == <<"h", "t", "t", "p", "s", ":", "/", "/", "e", "/", "x">>
Href_netloc == <<"/", "/", "e", "/", "x">>
Href_parent == <<".", ".", "/">>
Href_qt6_7_0 == <<"q", "t", "6", "_", "7", "_", "0">>
Href_qt6_7_0_slash == <<"q", "t", "6", "_", "7", "_", "0", "/">>
Href_sdktool == <<"s", "d", "k", "t", "o", "o", "l", "/">>
Href_tools_ifw == <<"t", "o", "o", "l", "s", "_", "i", "f", "w", "/">>
Href_nested == <<"q", "t", "/", "x">>
Href_absolute == <<"/", "q", "t">>
Href_back == <<"x", "/", ".", ".", "/", "q", "t">>
Href_dot == <<".">>
Href_mailto == <<"m", "a", "i", "l", "t", "o", ":", "q", "t">>

FolderHrefs == {Href_evil, Href_netloc, Href_parent, Href_qt6_7_0, Href_qt6_7_0_slash,
                Href_sdktool, Href_tools_ifw, Href_nested, Href_absolute, Href_back, Href_dot,
                Href_mailto}
FolderAnchors == {Anchor(href) : href \in FolderHrefs} \union {AnchorWithoutHref}
FolderFilters == {<<>>, Str_tools, Str_qt, Str_qt6}
MaxAnchors == 2

RECURSIVE SeqsUpTo(_, _)
SeqsUpTo(S, n) ==
    IF n = 0 THEN {<<>>}
    ELSE LET shorter == SeqsUpTo(S, n - 1)
         IN  shorter \union {Append(q, x) : q \in shorter, x \in S}

Call_iterate_folders(html_doc, filter_category) ==
    /\ pc = "idle"
    /\ pc' = "done"
    /\ args' = [op |-> "iterate_folders", html_doc |-> html_doc, filter_category |-> filter_category]
    /\ ret' = iterate_folders(html_doc, filter_category)
    /\ UNCHANGED <<meta, settings, frame, net>>

InitFolders == InitCodec

NextFolders ==
    \/ pc = "idle" /\ \E html_doc \in {Page(links) : links \in SeqsUpTo(FolderAnchors, MaxAnchors)} \union {Malformed},
          filter_category \in FolderFilters :
            Call_iterate_folders(html_doc, filter_category)
    \/ CallEnds

SpecFolders == InitFolders /\ [][NextFolders]_vars

(***************************************************************************)
(* ArchiveId, SimpleSpec and the construction of a MetadataFactory         *)
(***************************************************************************)
\* An optional value that is set.
Some(value) == [some |-> value]

\* lines 169-178
ArchiveId(category, host, target) == [category |-> category, host |-> host, target |-> target]

Str_linux == <<"l", "i", "n", "u", "x">>
Str_desktop == <<"d", "e", "s", "k", "t", "o", "p">>

\* lines 180-181
is_preview(archive_id) == FALSE

\* lines 189-204: reading self.version raises AttributeError, an ArchiveId has
\* no such attribute; the test reaches it for the desktop target of a wasm host
to_url(archive_id) ==
    IF /\ archive_id.target = Str_desktop
       /\ archive_id.host \in {<<"w", "a", "s", "m", "_", "s", "i", "n", "g", "l", "e", "t", "h", "r", "e", "a", "d">>, <<"w", "a", "s", "m", "_", "m", "u", "l", "t", "i", "t", "h", "r", "e", "a", "d">>}
    THEN Raised(Exc("AttributeError", 0))
    ELSE LET arch == IF archive_id.host = <<"w", "i", "n", "d", "o", "w", "s">> THEN <<"_", "x", "8", "6">>
                     ELSE IF archive_id.host \in {<<"l", "i", "n", "u", "x", "_", "a", "r", "m", "6", "4">>, <<"a", "l", "l", "_", "o", "s">>, <<"w", "i", "n", "d", "o", "w", "s", "_", "a", "r", "m", "6", "4">>} THEN <<>>
                     ELSE <<"_", "x", "6", "4">>
         IN  Returned(<<"o", "n", "l", "i", "n", "e", "/", "q", "t", "s", "d", "k", "r", "e", "p", "o", "s", "i", "t", "o", "r", "y", "/">> \o archive_id.host \o arch \o <<"/">>
                      \o archive_id.target \o <<"/">>)

\* lines 206-220
to_folder(archive_id, version, qt_version_no_dots, extension) ==
    LET ext == IF extension # <<>> THEN <<"_">> \o extension ELSE <<>>
        flat == archive_id.category \o <<qt_version_no_dots[1]>> \o <<"_">> \o qt_version_no_dots
    IN  IF ~VersionLess(version, MakeVersion(6, 8, 0, FALSE))
        THEN flat \o <<"/">> \o flat \o ext
        ELSE flat \o ext

\* lines 183-187
is_qt(archive_id) == archive_id.category = Str_qt
is_tools(archive_id) == archive_id.category = Str_tools

\* lines 42-55: a SimpleSpec names a major, a minor and a patch number, each
\* one a number or any (-1): "*", "5", "5.6", "5.*.3".
SimpleSpec(major, minor, patch) == [major |-> major, minor |-> minor, patch |-> patch]

\* version in spec
InSpec(version, spec) ==
    /\ spec.major \in {-1, version.major}
    /\ spec.minor \in {-1, version.minor}
    /\ spec.patch \in {-1, version.patch}

\* lines 376-427: the instance __init__ leaves, or the exception it raises.
\* _action is the method getList calls, with the arguments the lambda holds.
Construct(o) ==
    LET instance(request_type, action) ==
            Returned([archive_id |-> o.archive_id, spec |-> o.spec,
                      base_url |-> IF o.base_url = None THEN 0 ELSE o.base_url.some,
                      request_type |-> request_type, action |-> action])
    IN  IF is_tools(o.archive_id)
        THEN IF o.tool_name # None
             THEN LET tool_name == o.tool_name.some
                      name == IF ~StartsWith(tool_name, <<"t", "o", "o", "l", "s", "_">>) /\ tool_name # <<"s", "d", "k", "t", "o", "o", "l">>
                              THEN <<"t", "o", "o", "l", "s", "_">> \o tool_name
                              ELSE tool_name
                  IN  IF o.is_long_listing
                      THEN instance("tool long listing", [fn |-> "fetch_tool_long_listing", tool_name |-> name])
                      ELSE instance("tool variant names", [fn |-> "fetch_tool_modules", tool_name |-> name])
             ELSE instance("tools", [fn |-> "fetch_tools"])
        ELSE IF o.is_latest_version
        THEN instance("latest version", [fn |-> "fetch_latest_version", ext |-> <<>>])
        ELSE IF o.modules_query # None
        THEN LET q == o.modules_query.some
             IN  IF o.is_long_listing
                 THEN instance("long modules", [fn |-> "fetch_long_modules", version |-> q.version_str, arch |-> Some(q.arch)])
                 ELSE instance("modules", [fn |-> "fetch_modules", version |-> q.version_str, arch |-> Some(q.arch)])
        ELSE IF o.architectures_ver # None
        THEN instance("architectures", [fn |-> "fetch_arches", version |-> o.architectures_ver.some, arch |-> None])
        ELSE IF o.archives_query # None /\ o.archives_query.some # <<>>
        THEN LET q == o.archives_query.some
             IN  IF Len(q) < 2
                 THEN Raised([type |-> "CliInputError", message |-> "archives flag requires QT_VERSION and ARCHITECTURE",
                              suggested_action |-> <<>>])
                 ELSE instance(IF Len(q) > 2 THEN "archives for modules" ELSE "archives for qt",
                               [fn |-> "fetch_archives", version |-> q[1], arch |-> Some(q[2]),
                                modules |-> SubSeq(q, 3, Len(q))])
        ELSE IF o.src_doc_examples_query # None
        THEN LET q == o.src_doc_examples_query.some
             IN  IF q.is_modules_query
                 THEN instance("modules for " \o q.cmd_type, [fn |-> "fetch_modules_sde", cmd_type |-> q.cmd_type, version |-> q.version])
                 ELSE instance("archives for " \o q.cmd_type, [fn |-> "fetch_archives_sde", cmd_type |-> q.cmd_type, version |-> q.version])
        ELSE instance("versions", [fn |-> "fetch_versions"])

\* The keyword arguments of __init__ that are not given.
Options(archive_id) ==
    [archive_id |-> archive_id, base_url |-> None, spec |-> None, is_latest_version |-> FALSE,
     modules_query |-> None, architectures_ver |-> None, archives_query |-> None,
     src_doc_examples_query |-> None, tool_name |-> None, is_long_listing |-> FALSE]

\* lines 784-787: the archive id, and the spec when one is set
describe_filters(m) ==
    IF m.spec = None
    THEN [archive_id |-> m.archive_id]
    ELSE [archive_id |-> m.archive_id, spec |-> m.spec]

\* An advisor that has nothing to suggest.
suggested_follow_up_nothing(m) == <<>>

\* lines 812-836: the messages are named, not spelled out
suggested_follow_up(m) ==
    IF is_tools(m.archive_id) /\ m.request_type = "tool variant names"
    THEN <<"check what tools are available">>
    ELSE IF m.spec # None
    THEN <<"check that versions exist within the spec">>
    ELSE IF m.request_type \in {"architectures", "modules", "extensions"}
    THEN <<"show versions of Qt available">>
         \o (IF m.request_type = "modules" THEN <<"list valid architectures">> ELSE <<>>)
    ELSE IF m.request_type = "archives for modules"
    THEN <<"show versions of Qt available", "show architectures available", "show modules available">>
    ELSE IF m.request_type = "archives for qt"
    THEN <<"show versions of Qt available", "show architectures available">>
    ELSE <<>>

QtLinuxDesktop == ArchiveId(Str_qt, Str_linux, Str_desktop)
ToolsLinuxDesktop == ArchiveId(Str_tools, Str_linux, Str_desktop)

\* The instance of a plain list-qt request.
PlainFactory == Construct(Options(QtLinuxDesktop)).value

(***************************************************************************)
(* MetadataFactory._get_qt_version_str                                     *)
(***************************************************************************)
\* A test that takes every 5.9.x for 5.9.0.
InSimpleSpec590AnyPatch(version) == version.major = 5 /\ version.minor = 9

\* line 618: version in SimpleSpec("5.9.0")
InSimpleSpec590(version) == InSpec(version, SimpleSpec(5, 9, 0))

\* A compact string that never holds the patch.
get_qt_version_str_without_patch(m, version) == StrOfInt(version.major) \o StrOfInt(version.minor)

\* lines 616-621
get_qt_version_str(m, version) ==
    LET patch == IF version.prerelease \/ is_preview(m.archive_id) \/ InSimpleSpec590(version)
                 THEN <<>>
                 ELSE StrOfInt(version.patch)
    IN  StrOfInt(version.major) \o StrOfInt(version.minor) \o patch

\* The versions of the model.
MaxMajor == 6
MaxMinor == 15
MaxPatch == 10
ModelVersions ==
    {MakeVersion(major, minor, patch, prerelease) :
        major \in 0..MaxMajor, minor \in 0..MaxMinor, patch \in 0..MaxPatch, prerelease \in BOOLEAN}

Call_get_qt_version_str(version) ==
    /\ pc = "idle"
    /\ pc' = "done"
    /\ args' = [op |-> "_get_qt_version_str", version |-> version]
    /\ ret' = Returned(get_qt_version_str(meta, version))
    /\ UNCHANGED <<meta, settings, frame, net>>

InitVersionStr ==
    /\ pc = "idle"
    /\ meta \in {Construct(Options(archive_id)).value : archive_id \in {QtLinuxDesktop, ToolsLinuxDesktop}}
    /\ settings = Settings({})
    /\ args = NoArgs
    /\ frame = NoFrame
    /\ net = <<>>
    /\ ret = NoRet

NextVersionStr ==
    \/ pc = "idle" /\ \E version \in ModelVersions : Call_get_qt_version_str(version)
    \/ CallEnds

SpecVersionStr == InitVersionStr /\ [][NextVersionStr]_vars

(***************************************************************************)
(* MetadataFactory.fetch_http                                              *)
(***************************************************************************)
\* line 543: err: BaseException = AssertionError("unraisable")
Unraisable == Exc("AssertionError", 0)

\* line 540: expected_hash
ExpectedHash(is_check_hash, published) == IF is_check_hash THEN published ELSE None

\* A fetch_http that tries the primary only.
BaseUrlsPrimaryOnly(base_url, fallback) == <<base_url>>

\* line 541: base_urls = self.base_url, random.choice(Settings.fallbacks)
BaseUrls(base_url, fallback) == <<base_url, fallback>>

\* line 547: url = posixpath.join(base_url, rest_of_url), rest_of_url relative
JoinUrl(base_url, rest_of_url) == [base |-> base_url, path |-> rest_of_url]

\* A loop that joins self.base_url, not the loop's base_url, to the path.
LoopBaseAlwaysPrimary(base_urls, i) == base_urls[1]

\* line 545/547: the base URL of iteration i (0-based) of the loop
LoopBase(base_urls, i) == base_urls[i + 1]

\* A handler that catches every exception of the transport.
CaughtAny(type) == type \in TransportErrors

\* line 550: except (ArchiveDownloadError, ArchiveConnectionError) as e
Caught(type) == type \in {DownloadError, ConnectionError}

\* A handler that keeps the first error it saw.
HandlerErrKeepsFirst(err, e) == IF err.request = 0 THEN e ELSE err

\* line 551: err = e
HandlerErr(err, e) == e

\* A loop that returns only when it has been through every base URL.
AfterSuccessNoShortCircuit(i, n) == IF i < n - 1 THEN "continue" ELSE "return"

\* line 548: a successful getUrl returns from the function
AfterSuccess(i, n) == "return"

\* The getUrl requests of the call, in order.
Requests == SelectSeq(net, LAMBDA e : e.op = "getUrl")
HashRequests == SelectSeq(net, LAMBDA e : e.op = "get_hash")

Call_fetch_http(rest_of_url, is_check_hash) ==
    /\ pc = "idle"
    /\ pc' = "fetch_http_540"
    /\ args' = [op |-> "fetch_http", rest_of_url |-> rest_of_url, is_check_hash |-> is_check_hash]
    /\ frame' = [op |-> "fetch_http", expected_hash |-> None, base_urls |-> <<>>, i |-> 0, err |-> Unraisable]
    /\ net' = <<>>
    /\ ret' = NoRet
    /\ UNCHANGED <<meta, settings>>

\* line 540: get_hash(...) if is_check_hash else None
fetch_http_540 ==
    /\ pc = "fetch_http_540"
    /\ \E published \in HashValues :
        /\ frame' = [frame EXCEPT !.expected_hash = ExpectedHash(args.is_check_hash, published)]
        /\ net' = IF args.is_check_hash
                  THEN Append(net, [op |-> "get_hash", path |-> args.rest_of_url, hash |-> published])
                  ELSE net
    /\ pc' = "fetch_http_541"
    /\ UNCHANGED <<meta, settings, args, ret>>

\* lines 541-543: random.choice raises IndexError on an empty sequence
fetch_http_541 ==
    /\ pc = "fetch_http_541"
    /\ IF settings.fallbacks = {}
       THEN /\ ret' = Raised(Exc("IndexError", 0))
            /\ pc' = "done"
            /\ UNCHANGED frame
       ELSE /\ \E fallback \in settings.fallbacks :
                frame' = [frame EXCEPT !.base_urls = BaseUrls(meta.base_url, fallback),
                                       !.err = Unraisable, !.i = 0]
            /\ pc' = "fetch_http_545"
            /\ UNCHANGED ret
    /\ UNCHANGED <<meta, settings, args, net>>

\* lines 545-548: the loop head; getUrl is called and the call is in flight
fetch_http_545 ==
    /\ pc = "fetch_http_545"
    /\ IF frame.i < Len(frame.base_urls)
       THEN /\ net' = Append(net, [op |-> "getUrl",
                                   url |-> JoinUrl(LoopBase(frame.base_urls, frame.i), args.rest_of_url),
                                   expected_hash |-> frame.expected_hash,
                                   outcome |-> "pending", content |-> None])
            /\ pc' = "fetch_http_548"
       ELSE /\ pc' = "fetch_http_556"
            /\ UNCHANGED net
    /\ UNCHANGED <<meta, settings, args, frame, ret>>

\* line 548: getUrl returns content
getUrl_returns(content) ==
    /\ pc = "fetch_http_548"
    /\ net' = [net EXCEPT ![Len(net)].outcome = "ok", ![Len(net)].content = content]
    /\ IF AfterSuccess(frame.i, Len(frame.base_urls)) = "return"
       THEN /\ ret' = Returned(content)
            /\ pc' = "done"
            /\ UNCHANGED frame
       ELSE /\ frame' = [frame EXCEPT !.i = frame.i + 1]
            /\ pc' = "fetch_http_545"
            /\ UNCHANGED ret
    /\ UNCHANGED <<meta, settings, args>>

\* lines 548-555: getUrl raises
getUrl_raises(type) ==
    /\ pc = "fetch_http_548"
    /\ net' = [net EXCEPT ![Len(net)].outcome = type]
    /\ IF Caught(type)
       THEN /\ frame' = [frame EXCEPT !.err = HandlerErr(frame.err, Exc(type, Len(Requests))),
                                      !.i = frame.i + 1]
            /\ pc' = "fetch_http_545"
            /\ UNCHANGED ret
       ELSE /\ ret' = Raised(Exc(type, Len(Requests)))
            /\ pc' = "done"
            /\ UNCHANGED frame
    /\ UNCHANGED <<meta, settings, args>>

\* line 556: raise err from err
fetch_http_556 ==
    /\ pc = "fetch_http_556"
    /\ ret' = Raised(frame.err)
    /\ pc' = "done"
    /\ UNCHANGED <<meta, settings, args, frame, net>>

InitFetch ==
    /\ pc = "idle"
    /\ meta \in {Construct([Options(QtLinuxDesktop) EXCEPT !.base_url = Some(base_url)]).value :
                    base_url \in Hosts}
    /\ settings \in {Settings(fallbacks) : fallbacks \in SUBSET Hosts}
    /\ args = NoArgs
    /\ frame = NoFrame
    /\ net = <<>>
    /\ ret = NoRet

NextFetch ==
    \/ pc = "idle" /\ \E rest_of_url \in Paths, is_check_hash \in BOOLEAN : Call_fetch_http(rest_of_url, is_check_hash)
    \/ fetch_http_540
    \/ fetch_http_541
    \/ fetch_http_545
    \/ \E content \in Contents : getUrl_returns(content)
    \/ \E type \in TransportErrors : getUrl_raises(type)
    \/ fetch_http_556
    \/ CallEnds

SpecFetch == InitFetch /\ [][NextFetch]_vars

(***************************************************************************)
(* Claims about fetch_http, checked under SpecFetch.                       *)
(***************************************************************************)
Retried == {DownloadError, ConnectionError}
EndsFetch == Done /\ args.op = "fetch_http"

\* C1: when the request to the primary base URL fails with a connection or
\* download error and the request to the chosen fallback succeeds, fetch_http
\* returns the content the fallback served and raises nothing.
C1_FallbackContentReturned ==
    (/\ EndsFetch
     /\ Len(Requests) = 2
     /\ Requests[1].outcome \in Retried
     /\ Requests[2].outcome = "ok")
    => /\ Requests[1].url = [base |-> meta.base_url, path |-> args.rest_of_url]
       /\ Requests[2].url = [base |-> frame.base_urls[2], path |-> args.rest_of_url]
       /\ frame.base_urls[2] \in settings.fallbacks
       /\ ret = Returned(Requests[2].content)

C1_Witness ==
    /\ EndsFetch
    /\ Len(Requests) = 2
    /\ Requests[1].outcome = ConnectionError
    /\ Requests[2].outcome = "ok"
    /\ Requests[2].url.base # meta.base_url
    /\ ret.kind = "return"

\* C2: when every request of the call has failed, the exception raised to the
\* caller is the one the last request raised, of that request's kind (not the
\* first request's, not another kind).
C2_LastErrorRaised ==
    (/\ EndsFetch
     /\ Len(Requests) >= 1
     /\ \A k \in 1..Len(Requests) : Requests[k].outcome # "ok")
    => ret = Raised(Exc(Requests[Len(Requests)].outcome, Len(Requests)))

C2_Witness ==
    /\ EndsFetch
    /\ Len(Requests) = 2
    /\ Requests[1].outcome = ConnectionError
    /\ Requests[2].outcome = DownloadError
    /\ ret = Raised(Exc(DownloadError, 2))

\* C3: in every state, a request to a fallback is in the log only if the
\* request to the primary is the first one and has completed with a connection
\* or download error, and no request follows one that succeeded: every request
\* but the last has completed with a failure.
C3_SequentialShortCircuit ==
    args.op = "fetch_http" =>
        \A k \in 1..Len(Requests) :
            /\ k = 1 => Requests[k].url.base = meta.base_url
            /\ k > 1 => /\ Requests[k - 1].outcome \in Retried
                        /\ Requests[1].outcome \in Retried
            /\ k < Len(Requests) => Requests[k].outcome \notin {"ok", "pending"}

C3_Witness ==
    /\ args.op = "fetch_http"
    /\ pc = "fetch_http_548"
    /\ Len(Requests) = 2
    /\ Requests[1].outcome = DownloadError
    /\ Requests[2].outcome = "pending"

\* The requests sent to host m after the first request.
RequestsAfterPrimaryTo(m) == {k \in 2..Len(Requests) : Requests[k].url.base = m}

\* C4 as stated: whenever fetch_http raises a connection or download error,
\* every configured fallback has been requested exactly once after the primary.
C4_AllFallbacksAttempted ==
    (EndsFetch /\ ret.kind = "raise" /\ ret.exc.type \in Retried)
    => \A m \in settings.fallbacks : Cardinality(RequestsAfterPrimaryTo(m)) = 1

\* C4, amended: whenever fetch_http raises a connection or download error, the
\* primary and then exactly one fallback, the one chosen from the configured
\* fallbacks, have each been requested once and both requests failed; every
\* configured fallback has been requested when exactly one is configured.
C4_ChosenFallbackAttempted ==
    (EndsFetch /\ ret.kind = "raise" /\ ret.exc.type \in Retried)
    => /\ Len(Requests) = 2
       /\ Requests[1].url.base = meta.base_url
       /\ Requests[2].url.base \in settings.fallbacks
       /\ Requests[1].outcome \in Retried
       /\ Requests[2].outcome \in Retried
       /\ Cardinality(settings.fallbacks) = 1 =>
            \A m \in settings.fallbacks : Cardinality(RequestsAfterPrimaryTo(m)) = 1

C4_Witness ==
    /\ EndsFetch
    /\ ret.kind = "raise"
    /\ ret.exc.type = ConnectionError
    /\ Cardinality(settings.fallbacks) = 2
    /\ Len(Requests) = 2

(***************************************************************************)
(* Claims about get_semantic_version, checked under SpecCodec.             *)
(***************************************************************************)
\* The value of a run of digits, most significant first.
RECURSIVE Pow10(_)
Pow10(n) == IF n = 0 THEN 1 ELSE 10 * Pow10(n - 1)
DigitsValue(s) ==
    LET RECURSIVE Sum(_)
        Sum(k) == IF k > Len(s) THEN 0 ELSE DigitValue(s[k]) * Pow10(Len(s) - k) + Sum(k + 1)
    IN  Sum(1)
AllDigits(s) == \A k \in 1..Len(s) : s[k] \in DigitChars

\* The decoder the claim describes.
RefDecode(s) ==
    LET under == {k \in 1..Len(s) : s[k] = "_"}
        n == Len(s)
        V(major, minor, patch) == [major |-> major, minor |-> minor, patch |-> patch, prerelease |-> FALSE]
    IN  IF n = 0 THEN None
        ELSE IF Cardinality(under) = 1
        THEN LET u == CHOOSE k \in under : TRUE
                 a == SubSeq(s, 1, u - 1)
                 b == SubSeq(s, u + 1, n)
             IN  IF a # <<>> /\ b # <<>> /\ AllDigits(a) /\ AllDigits(b)
                 THEN V(DigitsValue(a), DigitsValue(b), 0)
                 ELSE None
        ELSE IF Cardinality(under) = 2
        THEN LET u == CHOOSE k \in under : \A j \in under : k <= j
                 w == CHOOSE k \in under : \A j \in under : j <= k
                 a == SubSeq(s, 1, u - 1)
                 b == SubSeq(s, u + 1, w - 1)
                 c == SubSeq(s, w + 1, n)
             IN  IF a # <<>> /\ b # <<>> /\ c # <<>> /\ AllDigits(a) /\ AllDigits(b) /\ AllDigits(c)
                 THEN V(DigitsValue(a), DigitsValue(b), DigitsValue(c))
                 ELSE None
        ELSE IF Cardinality(under) > 2 THEN None
        ELSE IF ~AllDigits(s) THEN None
        ELSE IF n = 1 THEN None
        ELSE IF n = 2 THEN V(DigitValue(s[1]), DigitValue(s[2]), 0)
        ELSE IF n = 3 THEN V(DigitValue(s[1]), DigitValue(s[2]), DigitValue(s[3]))
        ELSE V(DigitValue(s[1]), 10 * DigitValue(s[2]) + DigitValue(s[3]), DigitsValue(SubSeq(s, 4, n)))

\* The underscore form major_minor_patch of a version.
UnderscoreForm(v) == StrOfInt(v.major) \o <<"_">> \o StrOfInt(v.minor) \o <<"_">> \o StrOfInt(v.patch)

\* C7: get_semantic_version(fragment, False) is the decoder the claim
\* describes, for every fragment; and a packed string that decodes to a version
\* decodes to the same version as the underscore form of that version.
C7_DecodesAsReference ==
    (Done /\ args.op = "get_semantic_version" /\ ~args.is_preview)
    => /\ ret = Returned(RefDecode(args.qt_ver))
       /\ (AllDigits(args.qt_ver) /\ ret.value # None)
            => get_semantic_version(UnderscoreForm(ret.value), FALSE) = ret.value

C7_Witness ==
    /\ Done
    /\ args.op = "get_semantic_version"
    /\ args.qt_ver = <<"5", "1", "2", "1", "2">>
    /\ ~args.is_preview
    /\ ret = Returned([major |-> 5, minor |-> 12, patch |-> 12, prerelease |-> FALSE])

(***************************************************************************)
(* Claims about iterate_folders, checked under SpecFolders.                *)
(***************************************************************************)
\* The normalized path of an anchor when the anchor names an immediate child
\* folder, and <<>> when it does not.
ChildFolder(link) ==
    LET url == urlparse(IF link.has_href THEN link.href ELSE <<>>)
        segment == normpath(url.path)
    IN  IF /\ url.scheme = <<>>
           /\ url.netloc = <<>>
           /\ segment # <<>>
           /\ \A k \in 1..Len(segment) : segment[k] # "/"
           /\ segment \notin {<<".">>, <<".", ".">>}
        THEN segment
        ELSE <<>>

\* C9: iterate_folders yields, in document order, exactly the child folders
\* of the page that start with the filter, and with the filter "tools" also
\* the folder "sdktool", each once for its anchor; the anchors of the claim
\* are excluded and included as it says.
C9_YieldsChildFolders ==
    (Done /\ args.op = "iterate_folders" /\ args.html_doc.parses)
    => LET links == args.html_doc.links
           children == [k \in 1..Len(links) |-> ChildFolder(links[k])]
           Wanted(f) == /\ f # <<>>
                        /\ \/ StartsWith(f, args.filter_category)
                           \/ (args.filter_category = Str_tools /\ f = Str_sdktool)
       IN  /\ ret = Returned(SelectSeq(children, Wanted))
           /\ \A k \in 1..Len(links) :
                 links[k] \in {Anchor(Href_evil), Anchor(Href_parent), Anchor(Href_mailto)}
                    => children[k] = <<>>
           /\ (links = <<Anchor(Href_qt6_7_0)>> /\ args.filter_category = Str_qt6)
                 => ret = Returned(<<Href_qt6_7_0>>)

C9_Witness ==
    /\ Done
    /\ args.op = "iterate_folders"
    /\ args.html_doc = Page(<<Anchor(Href_evil), Anchor(Href_sdktool)>>)
    /\ args.filter_category = Str_tools
    /\ ret = Returned(<<Str_sdktool>>)

(***************************************************************************)
(* Claims about _get_qt_version_str, checked under SpecVersionStr.         *)
(***************************************************************************)
\* C10: _get_qt_version_str returns the digits of major, minor and patch
\* concatenated, the patch left out exactly when the version is a prerelease,
\* the archive id is a preview or the version is 5.9.0; 5.9.0 gives "59" and
\* 5.9.1 gives "591".
C10_CompactVersionString ==
    (Done /\ args.op = "_get_qt_version_str")
    => LET v == args.version
           major_minor == StrOfInt(v.major) \o StrOfInt(v.minor)
           omitted == \/ v.prerelease
                      \/ is_preview(meta.archive_id)
                      \/ (v.major = 5 /\ v.minor = 9 /\ v.patch = 0)
       IN  /\ ret.kind = "return"
           /\ omitted => ret.value = major_minor
           /\ ~omitted => ret.value = major_minor \o StrOfInt(v.patch)
           /\ v = MakeVersion(5, 9, 0, FALSE) => ret.value = <<"5", "9">>
           /\ v = MakeVersion(5, 9, 1, FALSE) => ret.value = <<"5", "9", "1">>

C10_Witness ==
    /\ Done
    /\ args.op = "_get_qt_version_str"
    /\ args.version = MakeVersion(5, 9, 0, FALSE)
    /\ is_qt(meta.archive_id)
    /\ ret = Returned(<<"5", "9">>)


(***************************************************************************)
(* Versions, get_versions_extensions and fetch_versions                   *)
(***************************************************************************)
Str_preview == <<"p", "r", "e", "v", "i", "e", "w">>
Str_latest == <<"l", "a", "t", "e", "s", "t">>

\* lines 591-596: the pair of a folder split into components
folder_to_version_extension_591(components) ==
    LET ext == IF Len(components) < 3 THEN <<>> ELSE components[3]
        ver == IF Len(components) < 2 THEN <<>> ELSE components[2]
    IN  [ver |-> get_semantic_version(ver, Contains(ext, Str_preview)), ext |-> ext]

\* lines 589-596
folder_to_version_extension(folder) == folder_to_version_extension_591(SplitMax(folder, "_", 2))

\* lines 598-601: the map over the folders, run to its end; the exception of
\* the generator is raised where the map is consumed
get_versions_extensions_598(folders) ==
    IF folders.kind = "raise" THEN folders
    ELSE Returned([k \in 1..Len(folders.value) |-> folder_to_version_extension(folders.value[k])])

\* lines 588-601
get_versions_extensions(html_doc, category) ==
    get_versions_extensions_598(iterate_folders(html_doc, category))

\* lines 461-462
filter_by(m, ver, ext, extension) == (m.spec = None \/ InSpec(ver, m.spec)) /\ ext = extension

\* A fetch_versions that leaves the versions in the order of the listing.
Unsorted(versions) == versions

\* line 466: sorted(); every version goes after the ones that are not greater
RECURSIVE sorted(_)
sorted(versions) ==
    IF versions = <<>> THEN <<>>
    ELSE LET front == sorted(SubSeq(versions, 1, Len(versions) - 1))
             v == versions[Len(versions)]
             n == Cardinality({k \in 1..Len(front) : ~VersionLess(v, front[k])})
         IN  SubSeq(front, 1, n) \o <<v>> \o SubSeq(front, n + 1, Len(front))

\* line 467: itertools.groupby(versions, lambda version: version.minor) starts
\* a group wherever the key changes
RECURSIVE groupby_minor(_)
groupby_minor(versions) ==
    IF versions = <<>> THEN <<>>
    ELSE LET key == versions[1].minor
             n == CHOOSE n \in 1..Len(versions) :
                    /\ \A k \in 1..n : versions[k].minor = key
                    /\ n = Len(versions) \/ versions[n + 1].minor # key
         IN  <<[key |-> key, group |-> SubSeq(versions, 1, n)]>>
             \o groupby_minor(SubSeq(versions, n + 1, Len(versions)))

\* lines 59-68: Versions.__init__ of None, of one Version, of groups
VersionsOfNone == <<>>
VersionsOfVersion(version) == <<<<version>>>>
VersionsOfGroups(grouped) == [k \in 1..Len(grouped) |-> grouped[k].group]

\* lines 81-82: Versions.__bool__
Versions_bool(self) == Len(self) > 0 /\ Len(self[1]) > 0

\* A latest that takes the first version of the first group.
earliest(self) == IF ~Versions_bool(self) THEN None ELSE self[1][1]

\* lines 84-87: Versions.latest
latest(self) == IF ~Versions_bool(self) THEN None ELSE self[Len(self)][Len(self[Len(self)])]

\* The first members of pairs.
VersionsOf(pairs) == [k \in 1..Len(pairs) |-> pairs[k].ver]

\* lines 466-468: fetch_versions from the pairs of the listing
fetch_versions_466(m, versions_extensions, extension) ==
    IF versions_extensions.kind = "raise" THEN versions_extensions
    ELSE Returned(VersionsOfGroups(groupby_minor(sorted(VersionsOf(
            SelectSeq(versions_extensions.value,
                      LAMBDA p : p.ver # None /\ filter_by(m, p.ver, p.ext, extension)))))))

\* lines 464-468: fetch_versions from the listing fetch_http returned
fetch_versions_464(m, html_doc, extension) ==
    fetch_versions_466(m, get_versions_extensions(html_doc, m.archive_id.category), extension)

\* aqt.repository.QtRepoProperty.extension_for_arch, for the architectures of
\* the model: the extension of the WebAssembly build, and none for the others
Str_gcc_64 == <<"g", "c", "c", "_", "6", "4">>
Str_wasm_32 == <<"w", "a", "s", "m", "_", "3", "2">>
Str_wasm == <<"w", "a", "s", "m">>
extension_for_arch(architecture, is_version_ge_6) ==
    IF architecture = Str_wasm_32 THEN Str_wasm ELSE <<>>

\* aqt.repository.Version(qt_ver): three dotted numbers without a leading
\* zero; anything else raises ValueError (None here)
ParseVersion(qt_ver) ==
    LET parts == Split(qt_ver, ".")
        number(s) == ParsesAsInt(s) /\ (Len(s) > 1 => s[1] # "0")
    IN  IF Len(parts) = 3 /\ \A k \in 1..3 : number(parts[k])
        THEN MakeVersion(IntOf(parts[1]), IntOf(parts[2]), IntOf(parts[3]), FALSE)
        ELSE None

(***************************************************************************)
(* Updates.xml, aqt.helper.xml_to_modules and the predicates of            *)
(* fetch_archives.  A manifest is the sequence of its PackageUpdate        *)
(* elements, or a text the XML parser raises on.  An element has a Name    *)
(* child or none, a DownloadableArchives child or none, each with a text   *)
(* or none, and an UpdateFile child or none, whose UncompressedSize        *)
(* attribute is a string or is missing (CompressedSize is always there).   *)
(* It may have a Description child as well.                                *)
(***************************************************************************)
Tag(text) == [text |-> text]
UpdateFile(UncompressedSize) == [UncompressedSize |-> UncompressedSize]
Element(Name, DownloadableArchives, update_file) ==
    [Name |-> Name, DownloadableArchives |-> DownloadableArchives, UpdateFile |-> update_file,
     Description |-> None]
\* The element with a Description child.
Described(element, Description) == [element EXCEPT !.Description = Description]
Manifest(elements) == [parses |-> TRUE, elements |-> elements]
CorruptManifest == [parses |-> FALSE, elements |-> <<>>]

ArchiveListError == Exc("ArchiveListError", 0)

\* The order of the characters of the model, by code point.
CharOrder == <<" ", ",", "-", ".", "/", "0", "1", "2", "3", "4", "5", "6", "7", "8", "9", ":", "_",
               "a", "b", "c", "d", "e", "f", "g", "h", "i", "j", "k", "l", "m",
               "n", "o", "p", "q", "r", "s", "t", "u", "v", "w", "x", "y", "z">>
CharRank(ch) == CHOOSE k \in 1..Len(CharOrder) : CharOrder[k] = ch

\* a < b, of two str
StrLess(a, b) ==
    \E k \in 1..(Len(b)) :
        /\ k <= Len(a) + 1
        /\ SubSeq(a, 1, k - 1) = SubSeq(b, 1, k - 1)
        /\ k = Len(a) + 1 \/ CharRank(a[k]) < CharRank(b[k])

\* sorted(S), of a set of str
RECURSIVE SortedStrings(_)
SortedStrings(S) ==
    IF S = {} THEN <<>>
    ELSE LET least == CHOOSE a \in S : \A b \in S \ {a} : StrLess(a, b)
         IN  <<least>> \o SortedStrings(S \ {least})

\* s.split(sep), for a sep of one or more characters
RECURSIVE SplitOn(_, _)
SplitOn(s, sep) ==
    IF ~Contains(s, sep) THEN <<s>>
    ELSE LET at == CHOOSE k \in 1..Len(s) :
                    /\ SubSeq(s, k, k + Len(sep) - 1) = sep
                    /\ \A j \in 1..(k - 1) : SubSeq(s, j, j + Len(sep) - 1) # sep
         IN  <<SubSeq(s, 1, at - 1)>> \o SplitOn(SubSeq(s, at + Len(sep), Len(s)), sep)

\* The members of a sequence.
Range(s) == {s[k] : k \in 1..Len(s)}

\* lines 603-611: the value returned, or the KeyError of attrib[...] and the
\* ValueError of int()
has_nonempty_downloads(element) ==
    LET downloads == element.DownloadableArchives
        update_file == element.UpdateFile
    IN  IF downloads = None \/ update_file = None THEN Returned(FALSE)
        ELSE IF update_file.UncompressedSize = None THEN Raised(Exc("KeyError", 0))
        ELSE IF ~ParsesAsInt(update_file.UncompressedSize.some) THEN Raised(Exc("ValueError", 0))
        ELSE Returned(/\ downloads.text # None
                      /\ IntOf(update_file.UncompressedSize.some) >= settings.min_module_size)

\* lines 684-689, for the key "Name"
require_text(element) ==
    IF element.Name = None THEN Raised(ArchiveListError)
    ELSE Returned(IF element.Name.text = None THEN <<>> ELSE element.Name.text.some)

\* _module, _arch = name.split(".")[-2:] raises ValueError when the name has
\* no "."
ModuleAndArch(name) ==
    LET parts == Split(name, ".")
    IN  IF Len(parts) < 2 THEN Raised(Exc("ValueError", 0))
        ELSE Returned([module |-> parts[Len(parts) - 1], arch |-> parts[Len(parts)]])

\* lines 751-753
all_modules(element, arch, qt_version_str) ==
    LET name == require_text(element)
        pair == ModuleAndArch(name.value)
    IN  IF name.kind = "raise" THEN name
        ELSE IF pair.kind = "raise" THEN pair
        ELSE IF pair.value.arch # arch THEN Returned(FALSE)
        ELSE IF pair.value.module = qt_version_str THEN Returned(FALSE)
        ELSE has_nonempty_downloads(element)

\* lines 755-757
specify_modules(element, arch, modules) ==
    LET name == require_text(element)
        pair == ModuleAndArch(name.value)
    IN  IF name.kind = "raise" THEN name
        ELSE IF pair.kind = "raise" THEN pair
        ELSE IF pair.value.arch # arch THEN Returned(FALSE)
        ELSE IF pair.value.module \notin Range(modules) THEN Returned(FALSE)
        ELSE has_nonempty_downloads(element)

\* A no_modules that requires the Name, as the other two predicates do.
no_modules_requiring_name(element, arch, qt_version_str) ==
    LET name == require_text(element)
    IN  IF name.kind = "raise" THEN name
        ELSE IF ~EndsWith(name.value, <<".">> \o qt_version_str \o <<".">> \o arch) THEN Returned(FALSE)
        ELSE has_nonempty_downloads(element)

\* lines 759-761
no_modules(element, arch, qt_version_str) ==
    LET name == IF element.Name = None THEN None ELSE element.Name.text
    IN  IF name = None THEN Returned(FALSE)
        ELSE IF ~EndsWith(name.some, <<".">> \o qt_version_str \o <<".">> \o arch) THEN Returned(FALSE)
        ELSE has_nonempty_downloads(element)

\* line 763
predicate(element, arch, modules, qt_version_str) ==
    IF modules = <<>> THEN no_modules(element, arch, qt_version_str)
    ELSE IF <<"a", "l", "l">> \in Range(modules) THEN all_modules(element, arch, qt_version_str)
    ELSE specify_modules(element, arch, modules)

\* aqt.helper.xml_to_modules, one element of its loop: the element is skipped
\* (None), or is stored under the text of its Name with the texts of its
\* children, or the predicate or find("Name").text raises
PackageOf(element, verdict) ==
    IF verdict.kind = "raise" THEN verdict
    ELSE IF ~verdict.value THEN Returned(None)
    ELSE IF element.Name = None THEN Raised(Exc("AttributeError", 0))
    ELSE IF element.UpdateFile # None /\ element.UpdateFile.UncompressedSize = None THEN Raised(ArchiveListError)
    ELSE Returned([name |-> element.Name.text,
                   DownloadableArchives |-> IF element.DownloadableArchives = None THEN None
                                            ELSE element.DownloadableArchives.text,
                   Description |-> IF element.Description = None THEN None ELSE element.Description.text])

\* aqt.helper.xml_to_modules: the packages in the order of a dict, a name
\* stored again keeps its place and takes the later value; the first exception
\* ends the loop
xml_to_modules(xml, verdicts) ==
    IF ~xml.parses THEN Raised(ArchiveListError)
    ELSE LET steps == [k \in 1..Len(xml.elements) |-> PackageOf(xml.elements[k], verdicts[k])]
             raising == {k \in 1..Len(steps) : steps[k].kind = "raise"}
             stored == {k \in 1..Len(steps) : steps[k].value # None}
             first(k) == \A j \in stored : steps[j].value.name = steps[k].value.name => k <= j
             last(k) == CHOOSE j \in stored :
                            /\ steps[j].value.name = steps[k].value.name
                            /\ \A i \in stored : steps[i].value.name = steps[k].value.name => i <= j
             places == SelectSeq([k \in 1..Len(steps) |-> k], LAMBDA k : k \in stored /\ first(k))
         IN  IF raising # {}
             THEN steps[CHOOSE k \in raising : \A j \in raising : k <= j]
             ELSE Returned([p \in 1..Len(places) |-> steps[last(places[p])].value])

\* A check that is content when one requested module was located.
NotFoundWhenNoneFound(requested_set, actual_set) ==
    IF requested_set \cap actual_set # {} THEN <<>> ELSE SortedStrings(requested_set \ actual_set)

\* line 775: sorted(requested_set.difference(actual_set))
NotFound(requested_set, actual_set) == SortedStrings(requested_set \ actual_set)

\* lines 771-782: fetch_archives from the packages of the manifest
fetch_archives_771(m, modules, mod_metadata) ==
    LET requested_set == Range(modules)
        actual_set == {LET parts == Split(p.name.some, ".") IN parts[Len(parts) - 1] : p \in Range(mod_metadata)}
        not_found == NotFound(requested_set, actual_set)
        csv_lists == [k \in 1..Len(mod_metadata) |-> mod_metadata[k].DownloadableArchives.some]
        arcs == UNION {Range(SplitOn(csv, <<",", " ">>)) : csv \in Range(csv_lists)}
    IN  IF modules # <<>> /\ <<"a", "l", "l">> \notin requested_set /\ not_found # <<>>
        THEN Raised([type |-> "CliInputError", message |-> "The requested modules were not located",
                     not_found |-> not_found, suggested_action |-> suggested_follow_up(m)])
        ELSE Returned(SortedStrings({Split(arc, "-")[1] : arc \in arcs}))

\* lines 764-769 and 625-629: the packages of the manifest under the predicate
\* of fetch_archives; an AttributeError or a ValueError of the resolution
\* becomes an ArchiveListError
fetch_archives_764(arch, modules, qt_version_str, xml) ==
    LET verdicts == [k \in 1..Len(xml.elements) |-> predicate(xml.elements[k], arch, modules, qt_version_str)]
        mod_metadata == xml_to_modules(xml, verdicts)
    IN  IF mod_metadata.kind = "raise" /\ mod_metadata.exc.type \in {"AttributeError", "ValueError"}
        THEN Raised(ArchiveListError)
        ELSE mod_metadata

\* lines 764-782: fetch_archives from the manifest fetch_http returned
fetch_archives_765(m, version, arch, modules, xml) ==
    LET mod_metadata == fetch_archives_764(arch, modules, get_qt_version_str(m, version), xml)
    IN  IF mod_metadata.kind = "raise" THEN mod_metadata
        ELSE fetch_archives_771(m, modules, mod_metadata.value)

(***************************************************************************)
(* ArchiveId: __init__, to_url and all_extensions.  The tables of          *)
(* aqt.repository.QtRepoProperty that ArchiveId reads are those of the     *)
(* repository's documentation.                                             *)
(***************************************************************************)
Str_android == <<"a", "n", "d", "r", "o", "i", "d">>
Str_wasm_singlethread == <<"w", "a", "s", "m", "_", "s", "i", "n", "g", "l", "e", "t", "h", "r", "e", "a", "d">>
Str_wasm_multithread == <<"w", "a", "s", "m", "_", "m", "u", "l", "t", "i", "t", "h", "r", "e", "a", "d">>

\* QtRepoProperty.CATEGORIES, HOSTS and TARGETS_FOR_HOST
CATEGORIES == {Str_qt, Str_tools}
HOSTS == {<<"w", "i", "n", "d", "o", "w", "s">>, <<"w", "i", "n", "d", "o", "w", "s", "_", "a", "r", "m", "6", "4">>, Str_linux, <<"l", "i", "n", "u", "x", "_", "a", "r", "m", "6", "4">>, <<"m", "a", "c">>, <<"a", "l", "l", "_", "o", "s">>,
          Str_wasm_singlethread, Str_wasm_multithread}
TARGETS_FOR_HOST(host) ==
    IF host = <<"w", "i", "n", "d", "o", "w", "s">> THEN {Str_android, Str_desktop, <<"w", "i", "n", "r", "t">>}
    ELSE IF host = <<"m", "a", "c">> THEN {Str_android, Str_desktop, <<"i", "o", "s">>}
    ELSE IF host = Str_linux THEN {Str_android, Str_desktop}
    ELSE IF host = <<"a", "l", "l", "_", "o", "s">> THEN {Str_wasm, Str_qt}
    ELSE {Str_desktop}

\* QtRepoProperty.EXTENSIONS_REQUIRED_ANDROID_QT6, a set
EXTENSIONS_REQUIRED_ANDROID_QT6 == {<<"x", "8", "6", "_", "6", "4">>, <<"x", "8", "6">>, <<"a", "r", "m", "v", "7">>, <<"a", "r", "m", "6", "4", "_", "v", "8", "a">>}

\* version >= Version("{major}.{minor}.{patch}")
AtLeast(version, major, minor, patch) == ~VersionLess(version, MakeVersion(major, minor, patch, FALSE))

\* QtRepoProperty.is_in_wasm_range: the versions that have the one "wasm" build
is_in_wasm_range(host, version) ==
    \/ AtLeast(version, 6, 2, 0) /\ ~AtLeast(version, 6, 5, 0)
    \/ host = Str_linux /\ AtLeast(version, 5, 13, 0) /\ ~AtLeast(version, 6, 0, 0)
    \/ AtLeast(version, 5, 13, 1) /\ ~AtLeast(version, 6, 0, 0)

\* QtRepoProperty.is_in_wasm_threaded_range
is_in_wasm_threaded_range(version) == AtLeast(version, 6, 5, 0)

\* lines 169-178: the ArchiveId, or the ValueError of __init__
ArchiveId_init(category, host, target) ==
    IF category \notin CATEGORIES THEN Raised(Exc("ValueError", 0))
    ELSE IF host \notin HOSTS THEN Raised(Exc("ValueError", 0))
    ELSE IF target \notin TARGETS_FOR_HOST(host) THEN Raised(Exc("ValueError", 0))
    ELSE Returned(ArchiveId(category, host, target))

\* The lists of the members of a set, one for every order.
ListsOf(S) == {s \in [1..Cardinality(S) -> S] : \A x \in S : \E k \in 1..Cardinality(S) : s[k] = x}

\* An all_extensions that adds the threaded builds to the "wasm" build.
all_extensions_both_wasm(archive_id, version) ==
    IF archive_id.target = Str_desktop /\ is_in_wasm_range(archive_id.host, version)
    THEN {<<<<>>, Str_wasm>>}
    ELSE IF archive_id.target = Str_desktop /\ is_in_wasm_threaded_range(version)
    THEN {<<<<>>, Str_wasm, Str_wasm_singlethread, Str_wasm_multithread>>}
    ELSE IF archive_id.target = Str_android /\ AtLeast(version, 6, 0, 0)
    THEN ListsOf(EXTENSIONS_REQUIRED_ANDROID_QT6)
    ELSE {<<<<>>>>}

\* lines 222-230: the lists all_extensions can return; list() of a set of str
\* has the order of the set, which differs from run to run
all_extensions(archive_id, version) ==
    IF archive_id.target = Str_desktop /\ is_in_wasm_range(archive_id.host, version)
    THEN {<<<<>>, Str_wasm>>}
    ELSE IF archive_id.target = Str_desktop /\ is_in_wasm_threaded_range(version)
    THEN {<<<<>>, Str_wasm_singlethread, Str_wasm_multithread>>}
    ELSE IF archive_id.target = Str_android /\ AtLeast(version, 6, 0, 0)
    THEN ListsOf(EXTENSIONS_REQUIRED_ANDROID_QT6)
    ELSE {<<<<>>>>}

Call_to_url ==
    /\ pc = "idle"
    /\ pc' = "done"
    /\ args' = [op |-> "to_url"]
    /\ ret' = to_url(meta.archive_id)
    /\ UNCHANGED <<meta, settings, frame, net>>

Call_all_extensions(version) ==
    /\ pc = "idle"
    /\ pc' = "done"
    /\ args' = [op |-> "all_extensions", version |-> version]
    /\ \E extensions \in all_extensions(meta.archive_id, version) : ret' = Returned(extensions)
    /\ UNCHANGED <<meta, settings, frame, net>>

\* The released versions of the model.
Releases == {version \in ModelVersions : ~version.prerelease}

InitArchiveId ==
    /\ pc = "idle"
    /\ \E category \in CATEGORIES, host \in HOSTS :
        \E target \in TARGETS_FOR_HOST(host) :
            meta = Construct(Options(ArchiveId_init(category, host, target).value)).value
    /\ settings = Settings({})
    /\ args = NoArgs
    /\ frame = NoFrame
    /\ net = <<>>
    /\ ret = NoRet

NextArchiveId ==
    \/ Call_to_url
    \/ pc = "idle" /\ \E version \in Releases : Call_all_extensions(version)
    \/ CallEnds

SpecArchiveId == InitArchiveId /\ [][NextArchiveId]_vars

(***************************************************************************)
(* MetadataFactory.getList for the requests "versions", "latest version",  *)
(* "archives for qt" and "archives for modules".  A fetch_http call is one *)
(* event of net: the request, and then the text it returned or the         *)
(* exception it raised.                                                    *)
(***************************************************************************)
FetchHttp(rest_of_url, is_check_hash) ==
    [op |-> "fetch_http", rest_of_url |-> rest_of_url, is_check_hash |-> is_check_hash,
     outcome |-> "pending", content |-> None]

\* The event of the call in flight, with the text fetch_http returned.
Answered(content) == [net EXCEPT ![Len(net)].outcome = "ok", ![Len(net)].content = content]

\* The event of the call in flight, with the exception fetch_http raised.
Failed(type) == [net EXCEPT ![Len(net)].outcome = type]

\* The call ends here.
Ends(result, events) ==
    /\ pc' = "done"
    /\ ret' = result
    /\ net' = events
    /\ UNCHANGED frame

\* lines 464-465: fetch_versions(extension) up to its call of fetch_http
fetch_versions_begin(extension, events) ==
    LET url == to_url(meta.archive_id)
    IN  IF url.kind = "raise" THEN Ends(url, events)
        ELSE /\ pc' = "fetch_versions_465"
             /\ frame' = [frame EXCEPT !.extension = extension]
             /\ net' = Append(events, FetchHttp(url.value, FALSE))
             /\ UNCHANGED ret

\* lines 747-766 and 624-625: fetch_archives(version, ...) up to the call of
\* fetch_http in _fetch_module_metadata; the AttributeError of to_url is raised
\* inside the try of line 765
fetch_archives_begin(version, events) ==
    LET arch == meta.action.arch.some
        extension == extension_for_arch(arch, ~VersionLess(version, MakeVersion(6, 0, 0, FALSE)))
        qt_version_str == get_qt_version_str(meta, version)
        folder == to_folder(meta.archive_id, version, qt_version_str, extension)
        url == to_url(meta.archive_id)
    IN  IF url.kind = "raise" THEN Ends(Raised(ArchiveListError), events)
        ELSE /\ pc' = "fetch_module_metadata_625"
             /\ frame' = [frame EXCEPT !.version = version]
             /\ net' = Append(events, FetchHttp(url.value \o folder \o <<"/", "U", "p", "d", "a", "t", "e", "s", ".", "x", "m", "l">>, ~settings.ignore_hash))
             /\ UNCHANGED ret

\* lines 624-628 with the default predicate: the packages of a manifest
fetch_module_metadata_626(xml) ==
    xml_to_modules(xml, [k \in 1..Len(xml.elements) |-> has_nonempty_downloads(xml.elements[k])])

\* line 624: posixpath.join(self.archive_id.to_url(), folder, "Updates.xml")
UpdatesXml(url, folder) == url \o folder \o <<"/", "U", "p", "d", "a", "t", "e", "s", ".", "x", "m", "l">>

\* lines 453-456: the arches of the packages of one manifest, or the
\* ValueError of ver, arch = name.split(".")[-2:] for a name without a "."
ArchesOf(modules, qt_ver_str) ==
    LET parts == [k \in 1..Len(modules) |-> Split(modules[k].name.some, ".")]
        named == SelectSeq(parts, LAMBDA q : Len(q) >= 2 /\ q[Len(q) - 1] = qt_ver_str)
    IN  IF \E k \in 1..Len(parts) : Len(parts[k]) < 2 THEN Raised(Exc("ValueError", 0))
        ELSE Returned([k \in 1..Len(named) |-> named[k][Len(named[k])]])

\* A handler that swallows the error on every extension.
SwallowedOnAnyExtension(type, extension) == type = DownloadError

\* lines 440-442: the except clause names ArchiveDownloadError, and raises
\* again for the extension ""
Swallowed(type, extension) == type = DownloadError /\ extension # <<>>

\* lines 435-439 and 458: the for loop takes the next extension and calls
\* fetch_http in _fetch_module_metadata, or is exhausted and arches is returned
fetch_arches_435(version, extensions, arches, events) ==
    IF extensions = <<>> THEN Ends(Returned(arches), events)
    ELSE LET folder == to_folder(meta.archive_id, version, get_qt_version_str(meta, version), Head(extensions))
             url == to_url(meta.archive_id)
         IN  IF url.kind = "raise" THEN Ends(url, events)
             ELSE /\ pc' = "fetch_arches_439"
                  /\ frame' = [frame EXCEPT !.version = version, !.extensions = extensions, !.arches = arches]
                  /\ net' = Append(events, FetchHttp(UpdatesXml(url.value, folder), ~settings.ignore_hash))
                  /\ UNCHANGED ret

\* lines 433-435: fetch_arches(version) up to the first turn of its loop
fetch_arches_begin(version, events) ==
    \E extensions \in all_extensions(meta.archive_id, version) :
        fetch_arches_435(version, extensions, <<>>, events)

\* lines 453-456: the names of the packages are read
fetch_arches_453(modules, events) ==
    LET found == ArchesOf(modules, get_qt_version_str(meta, frame.version))
    IN  IF found.kind = "raise" THEN Ends(found, events)
        ELSE fetch_arches_435(frame.version, Tail(frame.extensions), frame.arches \o found.value, events)

\* lines 439 and 625-629: fetch_http returns the manifest of the extension
fetch_arches_439_returns(xml) ==
    /\ pc = "fetch_arches_439"
    /\ LET modules == fetch_module_metadata_626(xml)
       IN  IF modules.kind = "raise" THEN Ends(modules, Answered(xml))
           ELSE fetch_arches_453(modules.value, Answered(xml))
    /\ UNCHANGED <<meta, settings, args>>

\* lines 439-451: fetch_http raises
fetch_arches_439_raises(type) ==
    /\ pc = "fetch_arches_439"
    /\ IF Swallowed(type, Head(frame.extensions))
       THEN fetch_arches_435(frame.version, Tail(frame.extensions), frame.arches, Failed(type))
       ELSE Ends(Raised(Exc(type, 0)), Failed(type))
    /\ UNCHANGED <<meta, settings, args>>

\* aqt.repository.QtRepoProperty.known_extensions
known_extensions == <<<<"q", "t", "p", "d", "f">>, <<"q", "t", "w", "e", "b", "e", "n", "g", "i", "n", "e">>>>

\* aqt.repository.QtRepoProperty.convert_arch_for_extension: the folder of
\* the architecture under extensions/, and the architecture of its packages
convert_arch_for_extension(host, arch) ==
    IF StartsWith(arch, <<"w", "i", "n", "6", "4", "_">>)
    THEN [folder_arch |-> SubSeq(arch, 7, Len(arch)), package_arch |-> arch]
    ELSE IF arch \in {Str_gcc_64, <<"l", "i", "n", "u", "x", "_", "g", "c", "c", "_", "6", "4">>}
    THEN [folder_arch |-> <<"x", "8", "6", "_", "6", "4">>, package_arch |-> <<"x", "8", "6", "_", "6", "4">>]
    ELSE [folder_arch |-> arch, package_arch |-> arch]

\* lines 637 and 640-649: to_module_arch(name), with None for a part that is
\* missing.  The pattern is ^(preview\.)?qt\.(qtM\.)?VER\.(.+)$
to_module_arch(name, version, qt_ver_str) ==
    LET unprefixed == IF StartsWith(name, <<"p", "r", "e", "v", "i", "e", "w", ".">>) THEN SubSeq(name, 9, Len(name)) ELSE name
        after_qt == SubSeq(unprefixed, 4, Len(unprefixed))
        major == <<"q", "t">> \o StrOfInt(version.major) \o <<".">>
        after_major == IF StartsWith(after_qt, major \o qt_ver_str \o <<".">>)
                       THEN SubSeq(after_qt, Len(major) + 1, Len(after_qt))
                       ELSE after_qt
        module_with_arch == SubSeq(after_major, Len(qt_ver_str) + 2, Len(after_major))
        parts == Split(module_with_arch, ".")
        module == Join(SubSeq(parts, 1, Len(parts) - 1), <<".">>)
    IN  IF ~StartsWith(unprefixed, <<"q", "t", ".">>) \/ ~StartsWith(after_major, qt_ver_str \o <<".">>)
           \/ module_with_arch = <<>>
        THEN [module |-> None, arch |-> None]
        ELSE IF ~Contains(module_with_arch, <<".">>)
        THEN [module |-> Some(module_with_arch), arch |-> None]
        ELSE [module |-> Some(IF StartsWith(module, <<"a", "d", "d", "o", "n", "s", ".">>) THEN SubSeq(module, 8, Len(module)) ELSE module),
              arch |-> Some(parts[Len(parts)])]

\* lines 651-656: the regular modules of the packages of the manifest
RegularModules(modules_meta, version, arch) ==
    LET qt_ver_str == get_qt_version_str(meta, version)
    IN  {to_module_arch(package.name.some, version, qt_ver_str).module.some :
            package \in {q \in Range(modules_meta) :
                            to_module_arch(q.name.some, version, qt_ver_str).arch = Some(arch)}}

\* lines 660-674: the path of the probe for an extension module
extension_path(archive_id, version, arch, extension_module) ==
    LET os_arch == archive_id.host \o (IF archive_id.host = <<"w", "i", "n", "d", "o", "w", "s">> THEN <<"_", "x", "8", "6">>
                                       ELSE IF archive_id.host \in {<<"l", "i", "n", "u", "x", "_", "a", "r", "m", "6", "4">>, <<"a", "l", "l", "_", "o", "s">>, <<"w", "i", "n", "d", "o", "w", "s", "_", "a", "r", "m", "6", "4">>} THEN <<>>
                                       ELSE <<"_", "x", "6", "4">>)
    IN  <<"o", "n", "l", "i", "n", "e", "/", "q", "t", "s", "d", "k", "r", "e", "p", "o", "s", "i", "t", "o", "r", "y", "/">> \o os_arch \o <<"/", "e", "x", "t", "e", "n", "s", "i", "o", "n", "s", "/">> \o extension_module \o <<"/">>
        \o get_qt_version_str(meta, version) \o <<"/">>
        \o convert_arch_for_extension(archive_id.host, arch).folder_arch \o <<"/", "U", "p", "d", "a", "t", "e", "s", ".", "x", "m", "l">>

\* A handler that lets the error of a probe out.
ProbeSwallowedNever(type) == FALSE

\* line 679: except ArchiveDownloadError
ProbeSwallowed(type) == type = DownloadError

\* lines 671-682: the for loop takes the next known extension and calls
\* fetch_http for its probe, or is exhausted and sorted(modules) is returned
fetch_modules_671(modules, extension_modules, events) ==
    IF extension_modules = <<>> THEN Ends(Returned(SortedStrings(modules)), events)
    ELSE /\ pc' = "fetch_modules_677"
         /\ frame' = [frame EXCEPT !.modules = modules, !.extension_modules = extension_modules]
         /\ net' = Append(events, FetchHttp(extension_path(meta.archive_id, frame.version, meta.action.arch.some,
                                                           Head(extension_modules)), TRUE))
         /\ UNCHANGED ret

\* lines 634-638 and 624-625: fetch_modules(version, arch) up to the call of
\* fetch_http in _fetch_module_metadata
fetch_modules_begin(version, events) ==
    LET arch == meta.action.arch.some
        extension == extension_for_arch(arch, ~VersionLess(version, MakeVersion(6, 0, 0, FALSE)))
        folder == to_folder(meta.archive_id, version, get_qt_version_str(meta, version), extension)
        url == to_url(meta.archive_id)
    IN  IF url.kind = "raise" THEN Ends(url, events)
        ELSE /\ pc' = "fetch_modules_638"
             /\ frame' = [frame EXCEPT !.version = version]
             /\ net' = Append(events, FetchHttp(UpdatesXml(url.value, folder), ~settings.ignore_hash))
             /\ UNCHANGED ret

\* lines 651-659 and 682: the modules of the manifest, and the probes when
\* the version is 6.8.0 or later
fetch_modules_651(modules, events) ==
    IF AtLeast(frame.version, 6, 8, 0)
    THEN fetch_modules_671(modules, known_extensions, events)
    ELSE Ends(Returned(SortedStrings(modules)), events)

\* lines 638 and 625-629: fetch_http returns the manifest
fetch_modules_638_returns(xml) ==
    /\ pc = "fetch_modules_638"
    /\ LET modules_meta == fetch_module_metadata_626(xml)
       IN  IF modules_meta.kind = "raise" THEN Ends(modules_meta, Answered(xml))
           ELSE fetch_modules_651(RegularModules(modules_meta.value, frame.version, meta.action.arch.some),
                                  Answered(xml))
    /\ UNCHANGED <<meta, settings, args>>

\* line 638: fetch_http raises
fetch_modules_638_raises(type) ==
    /\ pc = "fetch_modules_638"
    /\ Ends(Raised(Exc(type, 0)), Failed(type))
    /\ UNCHANGED <<meta, settings, args>>

\* lines 677-678: the probe is answered, whatever the text
fetch_modules_677_returns(content) ==
    /\ pc = "fetch_modules_677"
    /\ fetch_modules_671(frame.modules \union {Head(frame.extension_modules)}, Tail(frame.extension_modules),
                         Answered(content))
    /\ UNCHANGED <<meta, settings, args>>

\* lines 677-680: the probe raises
fetch_modules_677_raises(type) ==
    /\ pc = "fetch_modules_677"
    /\ IF ProbeSwallowed(type)
       THEN fetch_modules_671(frame.modules, Tail(frame.extension_modules), Failed(type))
       ELSE Ends(Raised(Exc(type, 0)), Failed(type))
    /\ UNCHANGED <<meta, settings, args>>

\* s.replace(old, new): the occurrences of old that do not overlap, from the
\* left
RECURSIVE Replace(_, _, _)
Replace(s, old, new) ==
    IF ~Contains(s, old) THEN s
    ELSE LET at == CHOOSE k \in 1..Len(s) :
                    /\ SubSeq(s, k, k + Len(old) - 1) = old
                    /\ \A j \in 1..(k - 1) : SubSeq(s, j, j + Len(old) - 1) # old
         IN  SubSeq(s, 1, at - 1) \o new \o Replace(SubSeq(s, at + Len(old), Len(s)), old, new)

\* The line-break marker of a Description and the newline that replaces it.
Str_br == <<"<", "b", "r", ">">>
Newline == <<"\n">>

\* A table that keeps the fields of a package as they were parsed.
format_field_for_tty_keeping(package) == package

\* lines 247-250: format_field_for_tty("Description"), for one package of the
\* table
format_field_for_tty(package) ==
    IF package.Description # None
    THEN [package EXCEPT !.Description = Some(Replace(package.Description.some, Str_br, Newline))]
    ELSE package

\* lines 243-245: TableMetadata.__init__, for the packages in their order
TableMetadata_init(table_data) == [k \in 1..Len(table_data) |-> format_field_for_tty(table_data[k])]

\* The str of a cmd_type.
Chars(cmd_type) == IF cmd_type = "src" THEN <<"s", "r", "c">> ELSE IF cmd_type = "doc" THEN <<"d", "o", "c">> ELSE <<"e", "x", "a", "m", "p", "l", "e", "s">>

\* What follows ^(preview\.)?qt\.(qtM\.)?VER in a name the pattern matches so
\* far, or None; the patterns of lines 697-705 and 729
AfterVersion(name, version, qt_ver_str, with_preview) ==
    LET unprefixed == IF with_preview /\ StartsWith(name, <<"p", "r", "e", "v", "i", "e", "w", ".">>) THEN SubSeq(name, 9, Len(name)) ELSE name
        after_qt == SubSeq(unprefixed, 4, Len(unprefixed))
        major == <<"q", "t">> \o StrOfInt(version.major) \o <<".">>
        after_major == IF StartsWith(after_qt, major \o qt_ver_str)
                       THEN SubSeq(after_qt, Len(major) + 1, Len(after_qt))
                       ELSE after_qt
    IN  IF StartsWith(unprefixed, <<"q", "t", ".">>) /\ StartsWith(after_major, qt_ver_str)
        THEN Some(SubSeq(after_major, Len(qt_ver_str) + 1, Len(after_major)))
        ELSE None

\* lines 697-705: group "module" of the pattern
\* ^(preview\.)?qt\.(qtM\.)?VER(\.addons)?\.(?P<module>[^.]+)\.ARCH$, or None
long_module_of(name, version, qt_ver_str, arch) ==
    LET rest == AfterVersion(name, version, qt_ver_str, TRUE)
        module(r) == SubSeq(r, 2, Len(r) - Len(arch) - 1)
        fits(r) == /\ StartsWith(r, <<".">>)
                   /\ Len(r) >= Len(arch) + 3
                   /\ EndsWith(r, <<".">> \o arch)
                   /\ ~Contains(module(r), <<".">>)
        after_addons == SubSeq(rest.some, 8, Len(rest.some))
    IN  IF rest = None THEN None
        ELSE IF StartsWith(rest.some, <<".", "a", "d", "d", "o", "n", "s">>) /\ fits(after_addons) THEN Some(module(after_addons))
        ELSE IF fits(rest.some) THEN Some(module(rest.some))
        ELSE None

\* lines 706-707: matches_arch(element)
matches_arch(element, version, qt_ver_str, arch) ==
    LET name == require_text(element)
    IN  IF name.kind = "raise" THEN name
        ELSE Returned(long_module_of(name.value, version, qt_ver_str, arch) # None)

\* lines 709-718: fetch_long_modules from the manifest fetch_http returned; m
\* maps a module to the package stored last under it
fetch_long_modules_709(m, version, arch, xml) ==
    LET qt_ver_str == get_qt_version_str(m, version)
        modules_meta == xml_to_modules(xml, [k \in 1..Len(xml.elements) |->
                                                matches_arch(xml.elements[k], version, qt_ver_str, arch)])
        module(package) == long_module_of(package.name.some, version, qt_ver_str, arch)
    IN  IF modules_meta.kind = "raise" THEN modules_meta
        ELSE Returned([ModuleData |->
                 {[module |-> module(modules_meta.value[k]).some,
                   value |-> format_field_for_tty(modules_meta.value[k])] :
                     k \in {i \in 1..Len(modules_meta.value) :
                               /\ module(modules_meta.value[i]) # None
                               /\ \A j \in (i + 1)..Len(modules_meta.value) :
                                      module(modules_meta.value[j]) # module(modules_meta.value[i])}}])

\* lines 727-736: fetch_modules_sde from the manifest fetch_http returned; the
\* pattern is ^qt\.(qtM\.)?VER\.CMD\.(.+)$
fetch_modules_sde_727(m, cmd_type, version, xml) ==
    LET modules_meta == fetch_module_metadata_626(xml)
        rest(package) == AfterVersion(package.name.some, version, get_qt_version_str(m, version), FALSE)
        prefix == <<".">> \o Chars(cmd_type) \o <<".">>
        matched == SelectSeq(modules_meta.value,
                             LAMBDA package : /\ rest(package) # None
                                              /\ StartsWith(rest(package).some, prefix)
                                              /\ Len(rest(package).some) > Len(prefix))
    IN  IF modules_meta.kind = "raise" THEN modules_meta
        ELSE Returned([k \in 1..Len(matched) |->
                          SubSeq(rest(matched[k]).some, Len(prefix) + 1, Len(rest(matched[k]).some))])

\* lines 479-480: fetch_tool_modules from the manifest fetch_http returned
fetch_tool_modules_479(xml) ==
    LET tool_data == fetch_module_metadata_626(xml)
    IN  IF tool_data.kind = "raise" THEN tool_data
        ELSE Returned([k \in 1..Len(tool_data.value) |-> tool_data.value[k].name.some])

\* line 488: fetch_tool_long_listing from the manifest fetch_http returned
fetch_tool_long_listing_488(xml) ==
    LET tool_data == fetch_module_metadata_626(xml)
    IN  IF tool_data.kind = "raise" THEN tool_data
        ELSE Returned([ToolData |-> TableMetadata_init(tool_data.value)])

\* line 476: list(self.iterate_folders(html_doc, self.base_url, filter_category="tools"))
fetch_tools_476(html_doc) == iterate_folders(html_doc, Str_tools)

\* lines 624-625: _fetch_module_metadata(folder) up to its call of fetch_http
fetch_module_metadata_begin(version, folder, events) ==
    LET url == to_url(meta.archive_id)
    IN  IF url.kind = "raise" THEN Ends(url, events)
        ELSE /\ pc' = "fetch_module_metadata_625"
             /\ frame' = [frame EXCEPT !.version = version]
             /\ net' = Append(events, FetchHttp(UpdatesXml(url.value, folder), ~settings.ignore_hash))
             /\ UNCHANGED ret

\* lines 693-709: fetch_long_modules(version, arch) up to the call of fetch_http
fetch_long_modules_begin(version, events) ==
    fetch_module_metadata_begin(version,
        to_folder(meta.archive_id, version, get_qt_version_str(meta, version),
                  extension_for_arch(meta.action.arch.some, AtLeast(version, 6, 0, 0))),
        events)

\* lines 722-727 and 740-744: the assertions of fetch_modules_sde and of
\* fetch_archives_sde
sde_asserted(m) ==
    /\ m.action.cmd_type \in (IF m.action.fn = "fetch_modules_sde" THEN {"doc", "examples"}
                              ELSE {"src", "doc", "examples"})
    /\ m.archive_id.target \in {Str_desktop, Str_qt}

\* The manifest fetch_http returned to _fetch_module_metadata is resolved for
\* the method that asked for it.
fetch_module_metadata_626_returns(m, version, xml) ==
    IF m.action.fn = "fetch_archives"
    THEN fetch_archives_765(m, version, m.action.arch.some, m.action.modules, xml)
    ELSE IF m.action.fn = "fetch_archives_sde"
    THEN fetch_archives_765(m, version, Chars(m.action.cmd_type), <<>>, xml)
    ELSE IF m.action.fn = "fetch_modules_sde"
    THEN fetch_modules_sde_727(m, m.action.cmd_type, version, xml)
    ELSE IF m.action.fn = "fetch_long_modules"
    THEN fetch_long_modules_709(m, version, m.action.arch.some, xml)
    ELSE IF m.action.fn = "fetch_tool_modules"
    THEN fetch_tool_modules_479(xml)
    ELSE fetch_tool_long_listing_488(xml)

\* lines 406, 410 and 416: _to_version has returned the version to the lambda
to_version_returns(version, events) ==
    IF meta.action.fn = "fetch_arches" THEN fetch_arches_begin(version, events)
    ELSE IF meta.action.fn = "fetch_modules" THEN fetch_modules_begin(version, events)
    ELSE IF meta.action.fn = "fetch_long_modules" THEN fetch_long_modules_begin(version, events)
    ELSE fetch_archives_begin(version, events)

\* The locals of a call of getList.
NewFrame ==
    [op |-> "getList", extension |-> <<>>, version |-> None, extensions |-> <<>>, arches |-> <<>>,
     modules |-> {}, extension_modules |-> <<>>]

\* lines 429-430 and the _action of lines 398, 406, 410, 416 and 427
Call_getList ==
    /\ pc = "idle"
    /\ args' = [op |-> "getList"]
    /\ frame' = NewFrame
    /\ IF meta.action.fn \in {"fetch_archives", "fetch_arches", "fetch_modules", "fetch_long_modules"}
       THEN pc' = "to_version_524" /\ net' = <<>> /\ ret' = NoRet
       ELSE IF meta.action.fn \in {"fetch_modules_sde", "fetch_archives_sde"}
       THEN pc' = "sde_722" /\ net' = <<>> /\ ret' = NoRet
       ELSE IF meta.action.fn \in {"fetch_tool_modules", "fetch_tool_long_listing"}
       THEN pc' = "fetch_tool_479" /\ net' = <<>> /\ ret' = NoRet
       ELSE LET url == to_url(meta.archive_id)
            IN  IF url.kind = "raise"
                THEN pc' = "done" /\ ret' = url /\ net' = <<>>
                ELSE /\ pc' = IF meta.action.fn = "fetch_tools" THEN "fetch_tools_475" ELSE "fetch_versions_465"
                     /\ net' = <<FetchHttp(url.value, FALSE)>>
                     /\ ret' = NoRet
    /\ UNCHANGED <<meta, settings>>

\* lines 479 and 488: fetch_tool_modules and fetch_tool_long_listing call
\* _fetch_module_metadata(tool_name)
fetch_tool_479 ==
    /\ pc = "fetch_tool_479"
    /\ fetch_module_metadata_begin(None, meta.action.tool_name, net)
    /\ UNCHANGED <<meta, settings, args>>

\* lines 722-727 and 740-747: fetch_modules_sde and fetch_archives_sde up to
\* the call of fetch_http; fetch_archives turns the AttributeError of to_url
\* into an ArchiveListError
sde_722 ==
    /\ pc = "sde_722"
    /\ LET version == meta.action.version
           folder == to_folder(meta.archive_id, version, get_qt_version_str(meta, version), <<"s", "r", "c", "_", "d", "o", "c", "_", "e", "x", "a", "m", "p", "l", "e", "s">>)
       IN  IF ~sde_asserted(meta) THEN Ends(Raised(Exc("AssertionError", 0)), net)
           ELSE IF meta.action.fn = "fetch_archives_sde" /\ to_url(meta.archive_id).kind = "raise"
           THEN Ends(Raised(ArchiveListError), net)
           ELSE fetch_module_metadata_begin(version, folder, net)
    /\ UNCHANGED <<meta, settings, args>>

\* lines 475-476: fetch_http returns the listing of the tools
fetch_tools_475_returns(html_doc) ==
    /\ pc = "fetch_tools_475"
    /\ Ends(fetch_tools_476(html_doc), Answered(html_doc))
    /\ UNCHANGED <<meta, settings, args>>

\* line 475: fetch_http raises
fetch_tools_475_raises(type) ==
    /\ pc = "fetch_tools_475"
    /\ Ends(Raised(Exc(type, 0)), Failed(type))
    /\ UNCHANGED <<meta, settings, args>>

\* lines 524-536: _to_version(qt_ver, arch)
to_version_524 ==
    /\ pc = "to_version_524"
    /\ LET qt_ver == meta.action.version
           arch == meta.action.arch
       IN  IF qt_ver = <<>>
           THEN Ends(Raised(Exc("AssertionError", 0)), net)
           ELSE IF qt_ver = Str_latest
           THEN fetch_versions_begin(IF arch # None /\ arch.some # <<>>
                                     THEN extension_for_arch(arch.some, TRUE)
                                     ELSE <<>>, net)
           ELSE LET version == ParseVersion(qt_ver)
                IN  IF version = None
                    THEN Ends(Raised([type |-> "CliInputError", message |-> "ValueError",
                                      suggested_action |-> <<>>]), net)
                    ELSE to_version_returns(version, net)
    /\ UNCHANGED <<meta, settings, args>>

\* line 398 and lines 527-531: fetch_latest_version has returned, to the
\* lambda of "latest version" or to _to_version
fetch_latest_version_returns(latest_version, events) ==
    IF meta.action.fn = "fetch_latest_version"
    THEN Ends(Returned(IF latest_version = None THEN VersionsOfNone
                       ELSE VersionsOfVersion(latest_version)), events)
    ELSE IF latest_version = None
    THEN Ends(Raised([type |-> "CliInputError",
                      message |-> "There is no latest version of Qt with the criteria",
                      criteria |-> describe_filters(meta), suggested_action |-> <<>>]), events)
    ELSE to_version_returns(latest_version, events)

\* lines 468 and 472: fetch_versions has returned or raised
fetch_versions_returns(versions, events) ==
    IF versions.kind = "raise" THEN Ends(versions, events)
    ELSE IF meta.action.fn = "fetch_versions" THEN Ends(versions, events)
    ELSE fetch_latest_version_returns(latest(versions.value), events)

\* lines 465-468: fetch_http returns the listing
fetch_versions_465_returns(html_doc) ==
    /\ pc = "fetch_versions_465"
    /\ fetch_versions_returns(fetch_versions_464(meta, html_doc, frame.extension), Answered(html_doc))
    /\ UNCHANGED <<meta, settings, args>>

\* line 465: fetch_http raises
fetch_versions_465_raises(type) ==
    /\ pc = "fetch_versions_465"
    /\ Ends(Raised(Exc(type, 0)), Failed(type))
    /\ UNCHANGED <<meta, settings, args>>

\* lines 625-629: fetch_http returns the manifest
fetch_module_metadata_625_returns(xml) ==
    /\ pc = "fetch_module_metadata_625"
    /\ Ends(fetch_module_metadata_626_returns(meta, frame.version, xml), Answered(xml))
    /\ UNCHANGED <<meta, settings, args>>

\* line 625: fetch_http raises
fetch_module_metadata_625_raises(type) ==
    /\ pc = "fetch_module_metadata_625"
    /\ Ends(Raised(Exc(type, 0)), Failed(type))
    /\ UNCHANGED <<meta, settings, args>>

\* The listings of the model.
Href_qt5_520 == <<"q", "t", "5", "_", "5", "2", "0", "/">>
Href_qt5_521 == <<"q", "t", "5", "_", "5", "2", "1", "/">>
Href_qt5_5150 == <<"q", "t", "5", "_", "5", "1", "5", "0", "/">>
Href_qt6_620 == <<"q", "t", "6", "_", "6", "2", "0", "/">>
Href_qt6_620_wasm == <<"q", "t", "6", "_", "6", "2", "0", "_", "w", "a", "s", "m", "/">>
Href_qt6_dev == <<"q", "t", "6", "_", "d", "e", "v", "/">>
ListingAnchors == {Anchor(href) : href \in {Href_qt5_520, Href_qt5_521, Href_qt5_5150, Href_qt6_620,
                                            Href_qt6_620_wasm, Href_qt6_dev}}
MaxListing == 3
Listings == {Page(links) : links \in SeqsUpTo(ListingAnchors, MaxListing)} \union {Malformed}

\* The elements and the manifests of the model.
Size_100 == Some(<<"1", "0", "0">>)
Name_qt620 == <<"q", "t", ".", "q", "t", "6", ".", "6", "2", "0", ".", "g", "c", "c", "_", "6", "4">>
Name_qtcharts == <<"q", "t", ".", "q", "t", "6", ".", "6", "2", "0", ".", "q", "t", "c", "h", "a", "r", "t", "s", ".", "g", "c", "c", "_", "6", "4">>
Name_qtsvg == <<"q", "t", ".", "q", "t", "6", ".", "6", "2", "0", ".", "a", "d", "d", "o", "n", "s", ".", "q", "t", "s", "v", "g", ".", "g", "c", "c", "_", "6", "4">>
Name_qtcharts_clang == <<"q", "t", ".", "q", "t", "6", ".", "6", "2", "0", ".", "q", "t", "c", "h", "a", "r", "t", "s", ".", "c", "l", "a", "n", "g", "_", "6", "4">>
Element_qt620 == Element(Tag(Some(Name_qt620)), Tag(Some(<<"q", "t", "b", "a", "s", "e", "-", "a", ".", "7", "z", ",", " ", "q", "t", "s", "v", "g", "-", "b", ".", "7", "z">>)), UpdateFile(Size_100))
Element_qtcharts == Element(Tag(Some(Name_qtcharts)), Tag(Some(<<"q", "t", "c", "h", "a", "r", "t", "s", "-", "a", ".", "7", "z">>)), UpdateFile(Size_100))
Element_qtsvg == Element(Tag(Some(Name_qtsvg)), Tag(Some(<<"q", "t", "s", "v", "g", "-", "a", ".", "7", "z", ",", " ", "q", "t", "s", "v", "g", "-", "b", ".", "7", "z">>)), UpdateFile(Size_100))
Element_qtcharts_clang == Element(Tag(Some(Name_qtcharts_clang)), Tag(Some(<<"q", "t", "c", "h", "a", "r", "t", "s", "-", "c", ".", "7", "z">>)), UpdateFile(Size_100))
Element_qtcharts_empty == Element(Tag(Some(Name_qtcharts)), Tag(None), UpdateFile(Size_100))
Element_qtsvg_small == Element(Tag(Some(Name_qtsvg)), Tag(Some(<<"q", "t", "s", "v", "g", "-", "a", ".", "7", "z">>)), UpdateFile(Some(<<"0">>)))
Element_no_name == Element(None, Tag(Some(<<"x", "-", "a", ".", "7", "z">>)), UpdateFile(Size_100))
Element_no_dot == Element(Tag(Some(<<"q", "t", "c", "h", "a", "r", "t", "s">>)), Tag(Some(<<"q", "t", "c", "h", "a", "r", "t", "s", "-", "a", ".", "7", "z">>)), UpdateFile(Size_100))
Element_bad_size == Element(Tag(Some(Name_qtcharts)), Tag(Some(<<"q", "t", "c", "h", "a", "r", "t", "s", "-", "a", ".", "7", "z">>)), UpdateFile(Some(<<"x">>)))
Element_no_size == Element(Tag(Some(Name_qtsvg)), Tag(Some(<<"q", "t", "s", "v", "g", "-", "a", ".", "7", "z">>)), UpdateFile(None))
Elements == {Element_qt620, Element_qtcharts, Element_qtsvg, Element_qtcharts_clang, Element_qtcharts_empty,
             Element_qtsvg_small, Element_no_name, Element_no_dot, Element_bad_size, Element_no_size}
MaxElements == 2
Manifests == {Manifest(elements) : elements \in SeqsUpTo(Elements, MaxElements)} \union {CorruptManifest}
SmallManifests == {Manifest(<<>>), Manifest(<<Element_qt620>>)}

Str_620 == <<"6", ".", "2", ".", "0">>
Module_qtcharts == <<"q", "t", "c", "h", "a", "r", "t", "s">>
Module_qtsvg == <<"q", "t", "s", "v", "g">>
Module_doesnotexist == <<"d", "o", "e", "s", "n", "o", "t", "e", "x", "i", "s", "t">>
Module_all == <<"a", "l", "l">>
ModuleLists == {<<>>, <<Module_all>>, <<Module_qtcharts>>, <<Module_qtcharts, Module_doesnotexist>>,
                <<Module_qtsvg, Module_qtcharts>>, <<Module_qtsvg, Module_doesnotexist, Module_qtcharts>>}
ListSpecs == {None, SimpleSpec(5, -1, -1)}
ArchivesSpecs == {None, SimpleSpec(6, -1, -1)}

\* The requests of the model that list versions or begin with a listing.
ListRequests ==
    {[Options(QtLinuxDesktop) EXCEPT !.spec = spec] : spec \in ListSpecs}
    \union {[Options(QtLinuxDesktop) EXCEPT !.spec = spec, !.is_latest_version = TRUE] : spec \in ListSpecs}
    \union {[Options(QtLinuxDesktop) EXCEPT !.spec = spec, !.archives_query = Some(query)] :
                spec \in ListSpecs,
                query \in {<<Str_latest, Str_gcc_64>>, <<Str_latest, Str_wasm_32>>,
                           <<Str_620, Str_gcc_64>>, <<<<"6", ".", "2">>, Str_gcc_64>>}}

\* The requests of the model for the archives of a version given in full.
ArchivesRequests ==
    {[Options(QtLinuxDesktop) EXCEPT !.spec = spec, !.archives_query = Some(<<Str_620, Str_gcc_64>> \o modules)] :
        spec \in ArchivesSpecs, modules \in ModuleLists}

InitList ==
    /\ pc = "idle"
    /\ meta \in {Construct(o).value : o \in ListRequests}
    /\ settings = Settings({})
    /\ args = NoArgs
    /\ frame = NoFrame
    /\ net = <<>>
    /\ ret = NoRet

NextList ==
    \/ Call_getList
    \/ to_version_524
    \/ pc = "fetch_versions_465" /\ \E html_doc \in Listings : fetch_versions_465_returns(html_doc)
    \/ \E type \in TransportErrors : fetch_versions_465_raises(type)
    \/ pc = "fetch_module_metadata_625" /\ \E xml \in SmallManifests : fetch_module_metadata_625_returns(xml)
    \/ \E type \in TransportErrors : fetch_module_metadata_625_raises(type)
    \/ CallEnds

SpecList == InitList /\ [][NextList]_vars

InitArchives ==
    /\ pc = "idle"
    /\ meta \in {Construct(o).value : o \in ArchivesRequests}
    /\ settings \in {[Settings({}) EXCEPT !.ignore_hash = ignore_hash] : ignore_hash \in BOOLEAN}
    /\ args = NoArgs
    /\ frame = NoFrame
    /\ net = <<>>
    /\ ret = NoRet

NextArchives ==
    \/ Call_getList
    \/ to_version_524
    \/ pc = "fetch_module_metadata_625" /\ \E xml \in Manifests : fetch_module_metadata_625_returns(xml)
    \/ \E type \in TransportErrors : fetch_module_metadata_625_raises(type)
    \/ CallEnds

SpecArchives == InitArchives /\ [][NextArchives]_vars

\* The requests of the model for the architectures of a version, and the
\* manifests of the model that answer them.
Name_qt620_wasm == <<"q", "t", ".", "q", "t", "6", ".", "6", "2", "0", ".", "w", "a", "s", "m", "_", "3", "2">>
Element_qt620_wasm == Element(Tag(Some(Name_qt620_wasm)), Tag(Some(<<"q", "t", "b", "a", "s", "e", "-", "w", ".", "7", "z">>)), UpdateFile(Size_100))
ArchManifests == {Manifest(<<>>), Manifest(<<Element_qt620>>), Manifest(<<Element_qt620_wasm, Element_qt620>>),
                  Manifest(<<Element_qtcharts, Element_qt620_wasm>>), Manifest(<<Element_no_dot>>), CorruptManifest}
ArchListings == {Page(<<>>), Page(<<Anchor(Href_qt6_620)>>)}
ArchesRequests ==
    {[Options(ArchiveId(Str_qt, Str_linux, target)) EXCEPT !.architectures_ver = Some(ver)] :
        target \in {Str_desktop, Str_android}, ver \in {Str_620, <<"6", ".", "5", ".", "0">>, <<"5", ".", "9", ".", "0">>, Str_latest, <<"6", ".", "2">>}}

InitArches ==
    /\ pc = "idle"
    /\ meta \in {Construct(o).value : o \in ArchesRequests}
    /\ settings = Settings({})
    /\ args = NoArgs
    /\ frame = NoFrame
    /\ net = <<>>
    /\ ret = NoRet

NextArches ==
    \/ Call_getList
    \/ to_version_524
    \/ pc = "fetch_versions_465" /\ \E html_doc \in ArchListings : fetch_versions_465_returns(html_doc)
    \/ \E type \in TransportErrors : fetch_versions_465_raises(type)
    \/ pc = "fetch_arches_439" /\ \E xml \in ArchManifests : fetch_arches_439_returns(xml)
    \/ \E type \in TransportErrors : fetch_arches_439_raises(type)
    \/ CallEnds

SpecArches == InitArches /\ [][NextArches]_vars

\* The requests of the model for the modules of a version, and the manifests
\* of the model that answer them.
Element_680_qtcharts == Element(Tag(Some(<<"q", "t", ".", "q", "t", "6", ".", "6", "8", "0", ".", "q", "t", "c", "h", "a", "r", "t", "s", ".", "g", "c", "c", "_", "6", "4">>)), Tag(Some(<<"q", "t", "c", "h", "a", "r", "t", "s", "-", "a", ".", "7", "z">>)), UpdateFile(Size_100))
Element_680_qtpdf == Element(Tag(Some(<<"q", "t", ".", "q", "t", "6", ".", "6", "8", "0", ".", "a", "d", "d", "o", "n", "s", ".", "q", "t", "p", "d", "f", ".", "g", "c", "c", "_", "6", "4">>)), Tag(Some(<<"q", "t", "p", "d", "f", "-", "a", ".", "7", "z">>)), UpdateFile(Size_100))
Element_680_qtwebengine_clang == Element(Tag(Some(<<"q", "t", ".", "q", "t", "6", ".", "6", "8", "0", ".", "q", "t", "w", "e", "b", "e", "n", "g", "i", "n", "e", ".", "c", "l", "a", "n", "g", "_", "6", "4">>)), Tag(Some(<<"q", "t", "w", "e", "b", "e", "n", "g", "i", "n", "e", "-", "a", ".", "7", "z">>)), UpdateFile(Size_100))
Element_680 == Element(Tag(Some(<<"q", "t", ".", "q", "t", "6", ".", "6", "8", "0", ".", "g", "c", "c", "_", "6", "4">>)), Tag(Some(<<"q", "t", "b", "a", "s", "e", "-", "a", ".", "7", "z">>)), UpdateFile(Size_100))
Element_680_qt3d == Element(Tag(Some(<<"q", "t", ".", "6", "8", "0", ".", "q", "t", "3", "d", ".", "g", "c", "c", "_", "6", "4">>)), Tag(Some(<<"q", "t", "3", "d", "-", "a", ".", "7", "z">>)), UpdateFile(Size_100))
ModuleElements == {Element_680_qtcharts, Element_680_qtpdf, Element_680_qtwebengine_clang, Element_680,
                   Element_680_qt3d, Element_qtcharts, Element_no_dot}
ModuleManifests == {Manifest(elements) : elements \in SeqsUpTo(ModuleElements, MaxElements)} \union {CorruptManifest}
ProbeContents == {Manifest(<<>>), CorruptManifest}
ModuleListings == {Page(<<>>), Page(<<Anchor(<<"q", "t", "6", "_", "6", "8", "0", "/">>), Anchor(Href_qt6_620)>>)}
ModulesRequests ==
    {[Options(QtLinuxDesktop) EXCEPT !.modules_query = Some([version_str |-> ver, arch |-> Str_gcc_64])] :
        ver \in {<<"6", ".", "8", ".", "0">>, <<"6", ".", "7", ".", "3">>, Str_620, <<"6", ".", "1", "0", ".", "0">>, Str_latest, <<"6", ".", "8">>}}

InitModules ==
    /\ pc = "idle"
    /\ meta \in {Construct(o).value : o \in ModulesRequests}
    /\ settings \in {[Settings({}) EXCEPT !.ignore_hash = ignore_hash] : ignore_hash \in BOOLEAN}
    /\ args = NoArgs
    /\ frame = NoFrame
    /\ net = <<>>
    /\ ret = NoRet

NextModules ==
    \/ Call_getList
    \/ to_version_524
    \/ pc = "fetch_versions_465" /\ \E html_doc \in ModuleListings : fetch_versions_465_returns(html_doc)
    \/ \E type \in TransportErrors : fetch_versions_465_raises(type)
    \/ pc = "fetch_modules_638" /\ \E xml \in ModuleManifests : fetch_modules_638_returns(xml)
    \/ \E type \in TransportErrors : fetch_modules_638_raises(type)
    \/ pc = "fetch_modules_677" /\ \E content \in ProbeContents : fetch_modules_677_returns(content)
    \/ \E type \in TransportErrors : fetch_modules_677_raises(type)
    \/ CallEnds

SpecModules == InitModules /\ [][NextModules]_vars

(***************************************************************************)
(* Claims about fetch_versions and _to_version, checked under SpecList.    *)
(***************************************************************************)
\* The listing fetch_http returned to the call.
ListingAnswered == Len(net) >= 1 /\ net[1].outcome = "ok" /\ net[1].content.parses

\* The versions of the listing that survive for an extension, in the order of
\* the listing: the folders of the category that decode to a version, match
\* the spec when one is set and carry the extension.
Survivors(extension) ==
    LET pairs == get_versions_extensions(net[1].content, meta.archive_id.category).value
        kept == SelectSeq(pairs, LAMBDA p : /\ p.ver # None
                                            /\ meta.spec # None => InSpec(p.ver, meta.spec)
                                            /\ p.ext = extension)
    IN  [k \in 1..Len(kept) |-> kept[k].ver]

\* fetch_versions has returned its Versions to the caller of getList.
VersionsReturned == Done /\ meta.action.fn = "fetch_versions" /\ ret.kind = "return"

RECURSIVE Flattened(_)
Flattened(groups) == IF groups = <<>> THEN <<>> ELSE Head(groups) \o Flattened(Tail(groups))

Occurrences(s, x) == Cardinality({k \in 1..Len(s) : s[k] = x})

\* No group is empty, a group has one minor number and is ascending, and the
\* groups hold the survivors, each as often as it is listed.
GroupsHoldSurvivors(groups) ==
    /\ \A g \in 1..Len(groups) : groups[g] # <<>>
    /\ \A g \in 1..Len(groups) : \A i \in 1..Len(groups[g]) : groups[g][i].minor = groups[g][1].minor
    /\ \A g \in 1..Len(groups) : \A i, j \in 1..Len(groups[g]) : i < j => VersionLeq(groups[g][i], groups[g][j])
    /\ \A v \in Range(Flattened(groups)) \union Range(Survivors(<<>>)) :
            Occurrences(Flattened(groups), v) = Occurrences(Survivors(<<>>), v)

\* The groups are in ascending order of their minor number; then no two groups
\* have the same minor, and a group holds every survivor of its minor.
AscendingMinors(groups) ==
    \A g, h \in 1..Len(groups) : g < h => groups[g][1].minor < groups[h][1].minor

\* C5 as stated: the Versions fetch_versions returns has each group equal to
\* all surviving versions of one minor number, no two groups of the same
\* minor, the groups in ascending order of minor number, each group ascending
\* and none empty.
C5_GroupedByMinor ==
    VersionsReturned => GroupsHoldSurvivors(ret.value) /\ AscendingMinors(ret.value)

\* C5: the Versions fetch_versions returns is the ascending list of the
\* surviving versions cut into its maximal runs of one minor number: the
\* groups concatenated are the survivors in ascending order of version, no
\* group is empty, a group has one minor number, and adjacent groups differ in
\* minor number.  When all survivors have one major number the groups are in
\* ascending order of minor number, no two of the same minor.
C5_GroupedByRunsOfMinor ==
    VersionsReturned =>
        LET groups == ret.value
            all == Flattened(groups)
        IN  /\ GroupsHoldSurvivors(groups)
            /\ \A i, j \in 1..Len(all) : i < j => VersionLeq(all[i], all[j])
            /\ \A g \in 1..(Len(groups) - 1) : groups[g][1].minor # groups[g + 1][1].minor
            /\ (\A i, j \in 1..Len(all) : all[i].major = all[j].major) => AscendingMinors(groups)

\* A listing out of order with versions of two majors: the minor number 2
\* comes back in two groups, with the group of 5.15 between them.
C5_Witness ==
    /\ VersionsReturned
    /\ Survivors(<<>>) = <<MakeVersion(6, 2, 0, FALSE), MakeVersion(5, 15, 0, FALSE), MakeVersion(5, 2, 0, FALSE)>>
    /\ ret.value = <<<<MakeVersion(5, 2, 0, FALSE)>>, <<MakeVersion(5, 15, 0, FALSE)>>, <<MakeVersion(6, 2, 0, FALSE)>>>>

\* getList was asked for the archives of the version "latest".
LatestRequested == meta.action.fn = "fetch_archives" /\ meta.action.version = Str_latest

\* The listed versions that match the spec and the extension of the arch.
Candidates == Range(Survivors(extension_for_arch(meta.action.arch.some, TRUE)))

\* The fetches of a manifest the call has started.
ManifestFetches == {k \in 1..Len(net) : EndsWith(net[k].rest_of_url, <<"/", "U", "p", "d", "a", "t", "e", "s", ".", "x", "m", "l">>)}

\* C6: when the version is "latest" and the listing has been fetched,
\* _to_version returns a listed version that matches the spec and the
\* extension of the arch and that no other such version exceeds; when no
\* listed version matches, the call ends with a CliInputError that carries
\* the archive id, and the spec when one is set, and no manifest was fetched.
C6_LatestIsMaximum ==
    LatestRequested /\ ListingAnswered =>
        IF Candidates = {}
        THEN /\ Done
             /\ ret.kind = "raise"
             /\ ret.exc.type = "CliInputError"
             /\ ret.exc.message = "There is no latest version of Qt with the criteria"
             /\ ret.exc.criteria.archive_id = meta.archive_id
             /\ IF meta.spec = None
                THEN DOMAIN ret.exc.criteria = {"archive_id"}
                ELSE DOMAIN ret.exc.criteria = {"archive_id", "spec"} /\ ret.exc.criteria.spec = meta.spec
             /\ ManifestFetches = {}
        ELSE /\ frame.version \in Candidates
             /\ \A v \in Candidates : VersionLeq(v, frame.version)
             /\ ManifestFetches = {2}

\* The listing names 5.15.0 before 5.2.1: the latest is 5.15.0, not the
\* last one listed, and its manifest is being fetched.
C6_Witness ==
    /\ LatestRequested
    /\ ListingAnswered
    /\ Survivors(<<>>) = <<MakeVersion(5, 2, 0, FALSE), MakeVersion(5, 15, 0, FALSE), MakeVersion(5, 2, 1, FALSE)>>
    /\ meta.action.arch = Some(Str_gcc_64)
    /\ frame.version = MakeVersion(5, 15, 0, FALSE)
    /\ pc = "fetch_module_metadata_625"

(***************************************************************************)
(* Claims about fetch_archives, checked under SpecArchives.                *)
(***************************************************************************)
\* getList was asked for the archives of named modules.
ModulesRequested ==
    /\ meta.action.fn = "fetch_archives"
    /\ meta.action.modules # <<>>
    /\ Module_all \notin Range(meta.action.modules)

\* The call has ended and fetch_http had returned the manifest to it.
ManifestAnswered == Done /\ Len(net) >= 1 /\ net[Len(net)].outcome = "ok" /\ Len(net) \in ManifestFetches

\* The manifest has an entry for the module and the arch of the request: the
\* name ends with the module and the arch, and the entry has archives to
\* download of at least the least size.
Located(module) ==
    \E e \in Range(net[Len(net)].content.elements) :
        /\ e.Name # None /\ e.Name.text # None
        /\ \E prefix \in {SubSeq(e.Name.text.some, 1, n) : n \in 0..Len(e.Name.text.some)} :
                e.Name.text.some = prefix \o module \o <<".">> \o meta.action.arch.some
                /\ (prefix = <<>> \/ prefix[Len(prefix)] = ".")
        /\ \A k \in 1..Len(module) : module[k] # "."
        /\ e.DownloadableArchives # None /\ e.DownloadableArchives.text # None
        /\ e.UpdateFile # None /\ e.UpdateFile.UncompressedSize # None
        /\ ParsesAsInt(e.UpdateFile.UncompressedSize.some)
        /\ IntOf(e.UpdateFile.UncompressedSize.some) >= settings.min_module_size

MissingModules == {module \in Range(meta.action.modules) : ~Located(module)}

\* The manifest is not of the expected structure: it is no XML, or an entry
\* has no name, a name without ".", or an UpdateFile whose size is no number.
Unreadable ==
    \/ ~net[Len(net)].content.parses
    \/ \E e \in Range(net[Len(net)].content.elements) :
        \/ e.Name = None
        \/ e.Name.text = None
        \/ \A k \in 1..Len(e.Name.text.some) : e.Name.text.some[k] # "."
        \/ e.UpdateFile # None /\ e.UpdateFile.UncompressedSize = None
        \/ e.UpdateFile # None /\ ~ParsesAsInt(e.UpdateFile.UncompressedSize.some)

\* C8: when modules are named, "all" is not among them, and the manifest
\* fetched has no entry for one of them and the arch, fetch_archives returns
\* no archive list: it raises.  What it raises for a manifest of the expected
\* structure is a CliInputError, and a CliInputError it raises carries exactly
\* the missing modules, in ascending order, and suggestions.
C8_MissingModulesRaise ==
    ModulesRequested /\ ManifestAnswered /\ MissingModules # {} =>
        /\ ret.kind = "raise"
        /\ ~Unreadable => ret.exc.type = "CliInputError"
        /\ ret.exc.type = "CliInputError" =>
            /\ Range(ret.exc.not_found) = MissingModules
            /\ \A i, j \in 1..Len(ret.exc.not_found) :
                    i < j => StrLess(ret.exc.not_found[i], ret.exc.not_found[j])
            /\ ret.exc.suggested_action # <<>>
        /\ ret.exc.type # "CliInputError" => ret.exc.type \in {"ArchiveListError", "KeyError"}

\* qtsvg, doesnotexist and qtcharts are requested of a manifest that has qt
\* and qtcharts: the error names doesnotexist and qtsvg, in that order.
C8_Witness ==
    /\ ModulesRequested
    /\ ManifestAnswered
    /\ meta.action.modules = <<Module_qtsvg, Module_doesnotexist, Module_qtcharts>>
    /\ net[Len(net)].content = Manifest(<<Element_qt620, Element_qtcharts>>)
    /\ ret = Raised([type |-> "CliInputError", message |-> "The requested modules were not located",
                     not_found |-> <<Module_doesnotexist, Module_qtsvg>>,
                     suggested_action |-> suggested_follow_up(meta)])
    /\ suggested_follow_up(meta) # <<>>

(***************************************************************************)
(* Claims about ArchiveId, checked under SpecArchiveId.                    *)
(***************************************************************************)
\* The path of the host and the target, with the suffix of the host.
HostPath(archive_id) ==
    <<"o", "n", "l", "i", "n", "e", "/", "q", "t", "s", "d", "k", "r", "e", "p", "o", "s", "i", "t", "o", "r", "y", "/">> \o archive_id.host
    \o (IF archive_id.host = <<"w", "i", "n", "d", "o", "w", "s">> THEN <<"_", "x", "8", "6">>
        ELSE IF archive_id.host \in {<<"l", "i", "n", "u", "x", "_", "a", "r", "m", "6", "4">>, <<"a", "l", "l", "_", "o", "s">>, <<"w", "i", "n", "d", "o", "w", "s", "_", "a", "r", "m", "6", "4">>} THEN <<>>
        ELSE <<"_", "x", "6", "4">>)
    \o <<"/">> \o archive_id.target \o <<"/">>

OnWasmDesktop(archive_id) ==
    archive_id.target = Str_desktop /\ archive_id.host \in {Str_wasm_singlethread, Str_wasm_multithread}

\* C11 as stated: to_url returns a path and does not fail; for the desktop
\* target of a wasm host the path is the flattened one from version 6.7.0 on
\* (the path of the host below it), and for every other archive id it is the
\* path of the host with its suffix.
C11_BasePath ==
    Done /\ args.op = "to_url" =>
        /\ ret.kind = "return"
        /\ IF OnWasmDesktop(meta.archive_id)
           THEN ret.value \in {<<"o", "n", "l", "i", "n", "e", "/", "q", "t", "s", "d", "k", "r", "e", "p", "o", "s", "i", "t", "o", "r", "y", "/", "a", "l", "l", "_", "o", "s", "/", "w", "a", "s", "m", "/">>, HostPath(meta.archive_id)}
           ELSE ret.value = HostPath(meta.archive_id)

\* C11, apart from the desktop target of the wasm hosts: to_url returns the
\* path of the host with its suffix.
C11_BasePathOfOtherHosts ==
    Done /\ args.op = "to_url" /\ ~OnWasmDesktop(meta.archive_id) => ret = Returned(HostPath(meta.archive_id))

C11_Witness ==
    /\ Done /\ args.op = "to_url"
    /\ meta.archive_id.host = <<"w", "i", "n", "d", "o", "w", "s">>
    /\ ret = Returned(<<"o", "n", "l", "i", "n", "e", "/", "q", "t", "s", "d", "k", "r", "e", "p", "o", "s", "i", "t", "o", "r", "y", "/", "w", "i", "n", "d", "o", "w", "s", "_", "x", "8", "6", "/", "d", "e", "s", "k", "t", "o", "p", "/">>)

OnAndroidQt6 == meta.archive_id.target = Str_android /\ AtLeast(args.version, 6, 0, 0)

NeverBothWasm(extensions) ==
    ~(/\ Str_wasm \in Range(extensions)
      /\ Range(extensions) \cap {Str_wasm_singlethread, Str_wasm_multithread} # {})

\* C12 as stated: the list all_extensions returns contains the normal
\* extension "", also for Android from major 6 on, and never contains "wasm"
\* together with "wasm_singlethread" or "wasm_multithread".
C12_NormalAlwaysListed ==
    Done /\ args.op = "all_extensions" =>
        <<>> \in Range(ret.value) /\ NeverBothWasm(ret.value)

\* C12: the list all_extensions returns starts with the normal extension ""
\* except for the android target from version 6.0.0 on, where it holds the
\* members of the required set, each once, and not ""; it never contains
\* "wasm" together with "wasm_singlethread" or "wasm_multithread".
C12_NormalListedButAndroidQt6 ==
    Done /\ args.op = "all_extensions" =>
        /\ IF OnAndroidQt6
           THEN /\ Range(ret.value) = EXTENSIONS_REQUIRED_ANDROID_QT6
                /\ Len(ret.value) = Cardinality(EXTENSIONS_REQUIRED_ANDROID_QT6)
                /\ <<>> \notin Range(ret.value)
           ELSE ret.value[1] = <<>>
        /\ NeverBothWasm(ret.value)
        /\ Str_wasm \in Range(ret.value) =>
                meta.archive_id.target = Str_desktop /\ ~AtLeast(args.version, 6, 5, 0)
        /\ Str_wasm_singlethread \in Range(ret.value) =>
                meta.archive_id.target = Str_desktop /\ AtLeast(args.version, 6, 5, 0)

\* The linux host, the android target and 6.2.0: "" is not in the list.
C12_Witness ==
    /\ Done /\ args.op = "all_extensions"
    /\ meta.archive_id = ArchiveId(Str_qt, Str_linux, Str_android)
    /\ args.version = MakeVersion(6, 2, 0, FALSE)
    /\ <<>> \notin Range(ret.value)

(***************************************************************************)
(* More claims about fetch_http, checked under SpecFetch.                  *)
(***************************************************************************)
\* C15: a getUrl that raises an exception other than a connection error and
\* a download error is the last request of the call: the call has ended, it
\* raised that exception of that request, and every request before it had
\* failed with a connection error or a download error.
C15_OtherErrorPropagates ==
    \A k \in 1..Len(Requests) :
        Requests[k].outcome \notin Retried \union {"pending", "ok"} =>
            /\ k = Len(Requests)
            /\ Done
            /\ ret = Raised(Exc(Requests[k].outcome, k))
            /\ \A j \in 1..(k - 1) : Requests[j].outcome \in Retried

\* The primary raises another error while a fallback on another host is at
\* hand: the call has ended after the one request.
C15_Witness ==
    /\ EndsFetch
    /\ Len(Requests) = 1
    /\ Requests[1].outcome = OtherError
    /\ frame.base_urls[2] # frame.base_urls[1]
    /\ ret = Raised(Exc(OtherError, 1))

(***************************************************************************)
(* Claims about fetch_arches, checked under SpecArches.                    *)
(***************************************************************************)
\* A call of fetch_arches has ended after it resolved its version.
ArchesEnded == Done /\ meta.action.fn = "fetch_arches" /\ frame.version # None

\* The fetches of the call for a manifest, in the order they were made.
ManifestEvents == SelectSeq(net, LAMBDA event : EndsWith(event.rest_of_url, <<"U", "p", "d", "a", "t", "e", "s", ".", "x", "m", "l">>))

\* The extension a manifest was fetched for: the one whose folder is in the
\* url of the fetch.
ExtensionOfFetch(event) ==
    CHOOSE extension \in {<<>>, Str_wasm, Str_wasm_singlethread, Str_wasm_multithread}
                         \union EXTENSIONS_REQUIRED_ANDROID_QT6 :
        event.rest_of_url = UpdatesXml(to_url(meta.archive_id).value,
                                       to_folder(meta.archive_id, frame.version,
                                                 get_qt_version_str(meta, frame.version), extension))

\* The architectures of the manifests that were fetched, in the order of the
\* fetches.
RECURSIVE CollectedArches(_)
CollectedArches(events) ==
    IF events = <<>> THEN <<>>
    ELSE IF Head(events).outcome # "ok" THEN CollectedArches(Tail(events))
    ELSE ArchesOf(fetch_module_metadata_626(Head(events).content).value,
                  get_qt_version_str(meta, frame.version)).value
         \o CollectedArches(Tail(events))

\* The call ended with the exception of its last fetch.
FailedAt(events, k) == k = Len(events) /\ ret = Raised(Exc(events[k].outcome, 0))

\* What is returned is what the fetched manifests hold, and the extensions
\* were taken in the order of all_extensions, each once.
ReturnsCollected(events) ==
    ret.kind = "return" =>
        /\ ret.value = CollectedArches(events)
        /\ [k \in 1..Len(events) |-> ExtensionOfFetch(events[k])]
               \in all_extensions(meta.archive_id, frame.version)

\* C16 as stated: when the fetch of a manifest fails with a connection error
\* or a download error, the call of fetch_arches goes on to the other
\* extensions if the extension is not "", and fails with that error if it is
\* "": a call that returns, returns the architectures of the manifests that
\* were fetched, in the order of the extensions.
C16_FetchFailuresSkipped ==
    ArchesEnded =>
        LET events == ManifestEvents
        IN  /\ \A k \in 1..Len(events) :
                   events[k].outcome \in {DownloadError, ConnectionError} =>
                       IF ExtensionOfFetch(events[k]) = <<>>
                       THEN FailedAt(events, k)
                       ELSE ~FailedAt(events, k)
            /\ ReturnsCollected(events)

\* C16, amended: a download error of the fetch for an extension other than ""
\* is skipped; a download error of the fetch for "", and every other error of
\* a fetch for any extension, ends the call with that error; a call that
\* returns, returns the architectures of the manifests that were fetched, in
\* the order of the extensions.
C16_DownloadFailuresSkipped ==
    ArchesEnded =>
        LET events == ManifestEvents
        IN  /\ \A k \in 1..Len(events) :
                   events[k].outcome # "ok" =>
                       IF events[k].outcome = DownloadError /\ ExtensionOfFetch(events[k]) # <<>>
                       THEN ~FailedAt(events, k)
                       ELSE FailedAt(events, k)
            /\ ReturnsCollected(events)

\* The manifest of "" names an architecture, the fetch for the extension
\* "wasm" fails with a download error, and the call returns.
C16_Witness ==
    /\ ArchesEnded
    /\ ret.kind = "return"
    /\ ret.value # <<>>
    /\ \E k \in 1..Len(ManifestEvents) :
        /\ ManifestEvents[k].outcome = DownloadError
        /\ ExtensionOfFetch(ManifestEvents[k]) = Str_wasm

(***************************************************************************)
(* Claims about fetch_modules, checked under SpecModules.                  *)
(***************************************************************************)
\* A call of fetch_modules that has resolved its version.
ModulesRun == pc # "idle" /\ meta.action.fn = "fetch_modules" /\ frame.version # None

\* The probes of the call, in the order they were made.
Probes == SelectSeq(net, LAMBDA event : Contains(event.rest_of_url, <<"/", "e", "x", "t", "e", "n", "s", "i", "o", "n", "s", "/">>))

\* The modules the manifest of the call names for the architecture.
ManifestModules ==
    LET fetched == SelectSeq(net, LAMBDA event : /\ EndsWith(event.rest_of_url, <<"U", "p", "d", "a", "t", "e", "s", ".", "x", "m", "l">>)
                                                 /\ ~Contains(event.rest_of_url, <<"/", "e", "x", "t", "e", "n", "s", "i", "o", "n", "s", "/">>))
    IN  RegularModules(fetch_module_metadata_626(fetched[1].content).value, frame.version, meta.action.arch.some)

\* A list of str is ascending, and so has no str twice.
Ascending(list) == \A k \in 1..(Len(list) - 1) : StrLess(list[k], list[k + 1])

\* C17: a call of fetch_modules for a version below 6.8.0 makes no probe.  For
\* a version >= 6.8.0, a probe that fails with a download error is not the
\* end of the call and is followed by the probe of the next known extension;
\* a call that returns has probed each known extension once, returns the
\* extension exactly when its probe was answered or the manifest names it for
\* the architecture, and returns its modules ascending, none twice.
C17_ExtensionProbing ==
    ModulesRun =>
        LET probes == Probes
        IN  /\ ~AtLeast(frame.version, 6, 8, 0) => probes = <<>>
            /\ \A k \in 1..Len(probes) :
                   probes[k].outcome = DownloadError =>
                       /\ ~(Done /\ ret.kind = "raise" /\ probes[k] = net[Len(net)])
                       /\ Done /\ k < Len(known_extensions) => Len(probes) > k
            /\ Done /\ ret.kind = "return" /\ AtLeast(frame.version, 6, 8, 0) =>
                   /\ [k \in 1..Len(probes) |-> probes[k].rest_of_url]
                          = [k \in 1..Len(known_extensions) |->
                                extension_path(meta.archive_id, frame.version, meta.action.arch.some,
                                               known_extensions[k])]
                   /\ \A k \in 1..Len(known_extensions) :
                          known_extensions[k] \in Range(ret.value)
                              <=> (probes[k].outcome = "ok" \/ known_extensions[k] \in ManifestModules)
                   /\ Range(ret.value) \subseteq ManifestModules \union Range(known_extensions)
            /\ Done /\ ret.kind = "return" => ManifestModules \subseteq Range(ret.value) /\ Ascending(ret.value)

\* The probe of "qtpdf" fails with a download error and the probe of
\* "qtwebengine" is answered; the manifest names "qtpdf" for the architecture,
\* and the call returns both.
C17_Witness ==
    /\ ModulesRun
    /\ Done
    /\ ret.kind = "return"
    /\ Len(Probes) = 2
    /\ Probes[1].outcome = DownloadError
    /\ Probes[2].outcome = "ok"
    /\ <<"q", "t", "p", "d", "f">> \in ManifestModules
    /\ {<<"q", "t", "p", "d", "f">>, <<"q", "t", "w", "e", "b", "e", "n", "g", "i", "n", "e">>} \subseteq Range(ret.value)

(***************************************************************************)
(* MetadataFactory.choose_highest_version_in_spec.  all_tools_data is the  *)
(* dict of the packages of a tool, in its order; tool_data holds the text  *)
(* of the Version child of the package when it has one.                    *)
(***************************************************************************)
\* aqt.repository.Version.permissive: the text matches
\* ^(\d+)(\.(\d+)(\.(\d+))?)?(-(.+))?$ or ValueError is raised (None here); a
\* number left out is 0 and what follows the first "-" is the prerelease
permissive(version_string) ==
    LET dash == IF Contains(version_string, <<"-">>)
                THEN CHOOSE k \in 1..Len(version_string) :
                        /\ version_string[k] = "-"
                        /\ \A j \in 1..(k - 1) : version_string[j] # "-"
                ELSE Len(version_string) + 1
        numbers == Split(SubSeq(version_string, 1, dash - 1), ".")
        prerelease == SubSeq(version_string, dash + 1, Len(version_string))
        number(k) == IF k <= Len(numbers) THEN IntOf(numbers[k]) ELSE 0
    IN  IF /\ Len(numbers) \in 1..3
           /\ \A k \in 1..Len(numbers) : ParsesAsInt(numbers[k])
           /\ dash <= Len(version_string) => prerelease # <<>>
        THEN Some([major |-> number(1), minor |-> number(2), patch |-> number(3), prerelease |-> prerelease])
        ELSE None

\* a < b, of two versions permissive returned: by the numbers, a prerelease
\* below the release, two prereleases as numbers when both are numbers, a
\* number below a text, and two texts as str
PermissiveLess(a, b) ==
    LET numbers(v) == MakeVersion(v.major, v.minor, v.patch, FALSE)
    IN  \/ VersionLess(numbers(a), numbers(b))
        \/ /\ numbers(a) = numbers(b)
           /\ a.prerelease # <<>>
           /\ \/ b.prerelease = <<>>
              \/ /\ b.prerelease # <<>>
                 /\ IF ParsesAsInt(a.prerelease) /\ ParsesAsInt(b.prerelease)
                    THEN IntOf(a.prerelease) < IntOf(b.prerelease)
                    ELSE IF ParsesAsInt(a.prerelease) # ParsesAsInt(b.prerelease)
                    THEN ParsesAsInt(a.prerelease)
                    ELSE StrLess(a.prerelease, b.prerelease)

\* version in simple_spec, of a version permissive returned: as InSpec, but
\* the prerelease of the least version of the spec is below the spec
InSpecPermissive(version, simple_spec) ==
    LET least(n) == IF n = -1 THEN 0 ELSE n
    IN  /\ InSpec(version, simple_spec)
        /\ version.prerelease # <<>> =>
               <<version.major, version.minor, version.patch>>
                   # <<least(simple_spec.major), least(simple_spec.minor), least(simple_spec.patch)>>

\* A min() in the place of max(): the place of the first item that exceeds
\* no item.
Min(tools_versions) ==
    CHOOSE k \in 1..Len(tools_versions) :
        /\ \A j \in 1..Len(tools_versions) : ~PermissiveLess(tools_versions[j].version, tools_versions[k].version)
        /\ \A j \in 1..(k - 1) : PermissiveLess(tools_versions[k].version, tools_versions[j].version)

\* line 508: max(tools_versions, key=operator.itemgetter(2)) keeps the first
\* item that no item exceeds; the place of that item
Max(tools_versions) ==
    CHOOSE k \in 1..Len(tools_versions) :
        /\ \A j \in 1..Len(tools_versions) : ~PermissiveLess(tools_versions[k].version, tools_versions[j].version)
        /\ \A j \in 1..(k - 1) : PermissiveLess(tools_versions[j].version, tools_versions[k].version)

\* lines 503-511: the conforming items and the greatest of them
choose_highest_version_in_spec_504(tools_versions, simple_spec) ==
    LET conforming == SelectSeq(tools_versions, LAMBDA item : InSpecPermissive(item.version, simple_spec))
    IN  IF conforming = <<>> THEN Returned(None)
        ELSE Returned(Some(conforming[Max(conforming)].tool_data))

\* lines 494-511: tool_data["Version"] raises KeyError for a package without
\* Version, and ValueError of permissive makes the result None; the first of
\* the two in the order of the dict decides
choose_highest_version_in_spec(all_tools_data, simple_spec) ==
    LET unreadable == {k \in 1..Len(all_tools_data) :
                          \/ all_tools_data[k].tool_data.Version = None
                          \/ permissive(all_tools_data[k].tool_data.Version.some) = None}
        first == CHOOSE k \in unreadable : \A j \in unreadable : k <= j
    IN  IF unreadable # {}
        THEN IF all_tools_data[first].tool_data.Version = None
             THEN Raised(Exc("KeyError", 0))
             ELSE Returned(None)
        ELSE choose_highest_version_in_spec_504(
                 [k \in 1..Len(all_tools_data) |->
                     [name |-> all_tools_data[k].name, tool_data |-> all_tools_data[k].tool_data,
                      version |-> permissive(all_tools_data[k].tool_data.Version.some).some]],
                 simple_spec)

Call_choose_highest_version_in_spec(all_tools_data, simple_spec) ==
    /\ pc = "idle"
    /\ pc' = "done"
    /\ args' = [op |-> "choose_highest_version_in_spec", all_tools_data |-> all_tools_data,
                simple_spec |-> simple_spec]
    /\ ret' = choose_highest_version_in_spec(all_tools_data, simple_spec)
    /\ UNCHANGED <<meta, settings, frame, net>>

\* The packages of the model: up to MaxTools of them, named by their place,
\* with these Version texts or without Version.
MaxTools == 3
ToolVersionTexts == {Some(<<"4", ".", "1", ".", "1">>), Some(<<"4", ".", "1">>), Some(<<"4", ".", "2", ".", "0">>), Some(<<"4", ".", "1", ".", "1", "-", "2">>), Some(<<"4", ".", "1", ".", "1", "-", "1", "0">>),
                     Some(<<"4", ".", "1", ".", "0", "-", "1">>), Some(<<"5", ".", "0", ".", "0">>), Some(<<"4", ".", "x">>), None}
ToolsData ==
    UNION {{[k \in 1..n |-> [name |-> k, tool_data |-> [Name |-> k, Version |-> texts[k]]]] :
                texts \in [1..n -> ToolVersionTexts]} : n \in 0..MaxTools}
ToolSpecs == {SimpleSpec(-1, -1, -1), SimpleSpec(4, -1, -1), SimpleSpec(4, 1, -1), SimpleSpec(4, 1, 1)}

InitChoose ==
    /\ pc = "idle"
    /\ meta = None
    /\ settings = Settings({})
    /\ args = NoArgs
    /\ frame = NoFrame
    /\ net = <<>>
    /\ ret = NoRet

NextChoose ==
    \/ pc = "idle" /\ \E all_tools_data \in ToolsData, simple_spec \in ToolSpecs :
                          Call_choose_highest_version_in_spec(all_tools_data, simple_spec)
    \/ CallEnds

SpecChoose == InitChoose /\ [][NextChoose]_vars

\* The call of choose_highest_version_in_spec has ended, for packages that all
\* have a Version.
ChoiceMade ==
    /\ Done
    /\ args.op = "choose_highest_version_in_spec"
    /\ \A k \in 1..Len(args.all_tools_data) : args.all_tools_data[k].tool_data.Version # None

\* The places of the packages whose Version parses and conforms to the spec.
Conforming ==
    {k \in 1..Len(args.all_tools_data) :
        /\ permissive(args.all_tools_data[k].tool_data.Version.some) # None
        /\ InSpecPermissive(permissive(args.all_tools_data[k].tool_data.Version.some).some, args.simple_spec)}

\* C18: when the Version of some package does not parse the result is None,
\* whatever the others are; otherwise the result is None exactly when no
\* package conforms to the spec, and a result that is not None is the
\* tool_data of a package that conforms and whose version no conforming
\* package exceeds.
C18_HighestInSpec ==
    ChoiceMade =>
        IF \E k \in 1..Len(args.all_tools_data) : permissive(args.all_tools_data[k].tool_data.Version.some) = None
        THEN ret = Returned(None)
        ELSE /\ ret.kind = "return"
             /\ ret.value = None <=> Conforming = {}
             /\ ret.value # None =>
                    \E k \in Conforming :
                        /\ ret.value.some = args.all_tools_data[k].tool_data
                        /\ \A j \in Conforming :
                               ~PermissiveLess(permissive(args.all_tools_data[k].tool_data.Version.some).some,
                                               permissive(args.all_tools_data[j].tool_data.Version.some).some)

\* Three packages conform, the second has the greatest version, a prerelease
\* that is greater as a number and smaller as a text, and it is the result.
C18_Witness ==
    /\ ChoiceMade
    /\ Conforming = {1, 2, 3}
    /\ ret = Returned(Some(args.all_tools_data[2].tool_data))
    /\ args.all_tools_data[1].tool_data.Version # args.all_tools_data[3].tool_data.Version
    /\ args.all_tools_data[2].tool_data.Version = Some(<<"4", ".", "1", ".", "1", "-", "1", "0">>)

(***************************************************************************)
(* The resolution of a manifest: xml_to_modules under the predicate of     *)
(* _fetch_module_metadata or under one of the three of fetch_archives.     *)
(***************************************************************************)
\* lines 625-629 and 763-769, from the manifest fetch_http returned: modules
\* is None for the default predicate of _fetch_module_metadata, and the list
\* of fetch_archives for the predicate it chooses
Resolved(xml, modules) ==
    IF modules = None THEN fetch_module_metadata_626(xml)
    ELSE fetch_archives_764(Str_gcc_64, modules.some, <<"6", "2", "0">>, xml)

Call_fetch_module_metadata(xml, modules) ==
    /\ pc = "idle"
    /\ pc' = "done"
    /\ args' = [op |-> "_fetch_module_metadata", xml |-> xml, modules |-> modules]
    /\ ret' = Resolved(xml, modules)
    /\ UNCHANGED <<meta, settings, frame, net>>

\* The manifests and the predicates of the model.
Element_no_downloads == Element(Tag(Some(Name_qtcharts)), None, UpdateFile(Size_100))
Element_only_size == Element(None, None, UpdateFile(Size_100))
Element_qt620_no_downloads == Element(Tag(Some(Name_qt620)), None, UpdateFile(Size_100))
ResolveElements == {Element_qt620, Element_qtcharts, Element_qtcharts_clang, Element_no_name, Element_no_downloads,
                    Element_qt620_no_downloads, Element_only_size, Element_no_dot, Element_no_size}
ResolveManifests == {Manifest(elements) : elements \in SeqsUpTo(ResolveElements, MaxElements)}
ResolvePredicates == {None, Some(<<>>), Some(<<Module_all>>), Some(<<Module_qtcharts>>)}

InitResolve ==
    /\ pc = "idle"
    /\ meta = None
    /\ settings = Settings({})
    /\ args = NoArgs
    /\ frame = NoFrame
    /\ net = <<>>
    /\ ret = NoRet

NextResolve ==
    \/ pc = "idle" /\ \E xml \in ResolveManifests, modules \in ResolvePredicates :
                          Call_fetch_module_metadata(xml, modules)
    \/ CallEnds

SpecResolve == InitResolve /\ [][NextResolve]_vars

\* A resolution has ended.
ResolutionEnded == Done /\ args.op = "_fetch_module_metadata"

LacksName(element) == element.Name = None
LacksDownloads(element) == element.DownloadableArchives = None

\* The resolution reaches the element at a place: no element before it raises.
Reached(k) == Resolved(Manifest(SubSeq(args.xml.elements, 1, k - 1)), args.modules).kind = "return"

\* The elements the code passes over for a field they lack: under no_modules
\* those without Name or without DownloadableArchives, under the default
\* predicate those without DownloadableArchives, and under all_modules and
\* specify_modules those without DownloadableArchives whose Name has a ".".
PassedOver(element) ==
    IF args.modules = None THEN LacksDownloads(element)
    ELSE IF args.modules.some = <<>> THEN LacksName(element) \/ LacksDownloads(element)
    ELSE /\ LacksDownloads(element)
         /\ ~LacksName(element)
         /\ ModuleAndArch(require_text(element).value).kind = "return"

UpdatesFetches == SelectSeq(net, LAMBDA event : EndsWith(event.rest_of_url, <<"U", "p", "d", "a", "t", "e", "s", ".", "x", "m", "l">>))

\* C20: every fetch of an Updates.xml, the probes of fetch_modules among them,
\* is made with the check of the hash when Settings.ignore_hash is false and
\* without the hash when it is true.
C20_HashFollowsSetting ==
    \A k \in 1..Len(UpdatesFetches) : UpdatesFetches[k].is_check_hash = ~settings.ignore_hash

\* The fetch of the manifest of the version follows the setting; every probe is
\* made with the check of the hash.
C20_ManifestFollowsSettingProbesCheck ==
    \A k \in 1..Len(UpdatesFetches) :
        UpdatesFetches[k].is_check_hash
            = (Contains(UpdatesFetches[k].rest_of_url, <<"/", "e", "x", "t", "e", "n", "s", "i", "o", "n", "s", "/">>) \/ ~settings.ignore_hash)

\* With Settings.ignore_hash a probe was made, with the check of the hash.
C20_ProbeChecksIgnoredHash ==
    /\ settings.ignore_hash
    /\ \E k \in 1..Len(Probes) : Probes[k].is_check_hash

\* Under SpecFetch: a call of fetch_http with is_check_hash retrieves the hash
\* once, before its first request, and every request carries that hash; a
\* call without is_check_hash retrieves no hash and its requests carry none.
C20_HashOnceBeforeRequests ==
    pc \notin {"idle", "fetch_http_540"} =>
        IF args.is_check_hash
        THEN /\ Len(HashRequests) = 1
             /\ net[1] = HashRequests[1]
             /\ \A k \in 1..Len(Requests) : Requests[k].expected_hash = HashRequests[1].hash
        ELSE /\ HashRequests = <<>>
             /\ \A k \in 1..Len(Requests) : Requests[k].expected_hash = None

(***************************************************************************)
(* MetadataFactory from its construction on, for every request type.       *)
(***************************************************************************)
\* lines 349-427: __init__ leaves the instance, or raises
MetadataFactory_init(o) ==
    /\ pc = "new"
    /\ IF Construct(o).kind = "raise"
       THEN pc' = "failed" /\ ret' = Construct(o) /\ UNCHANGED meta
       ELSE pc' = "idle" /\ meta' = Construct(o).value /\ UNCHANGED ret
    /\ UNCHANGED <<settings, args, frame, net>>

\* The requests, the listings and the manifests of the model.
Version_620 == MakeVersion(6, 2, 0, FALSE)
DispatchRequests ==
    {[Options(ToolsLinuxDesktop) EXCEPT !.tool_name = tool_name, !.is_long_listing = is_long_listing,
                                         !.is_latest_version = is_latest_version] :
        tool_name \in {None, Some(<<"i", "f", "w">>), Some(<<"t", "o", "o", "l", "s", "_", "i", "f", "w">>)}, is_long_listing \in BOOLEAN,
        is_latest_version \in BOOLEAN}
    \union {[Options(QtLinuxDesktop) EXCEPT !.spec = spec, !.is_latest_version = is_latest_version,
                                            !.modules_query = modules_query] :
                spec \in ListSpecs, is_latest_version \in BOOLEAN,
                modules_query \in {None, Some([version_str |-> Str_620, arch |-> Str_gcc_64])}}
    \union {[Options(QtLinuxDesktop) EXCEPT !.modules_query = Some([version_str |-> ver, arch |-> Str_gcc_64]),
                                            !.is_long_listing = is_long_listing,
                                            !.architectures_ver = architectures_ver] :
                ver \in {Str_620, <<"6", ".", "8", ".", "0">>}, is_long_listing \in BOOLEAN,
                architectures_ver \in {None, Some(Str_620)}}
    \union {[Options(QtLinuxDesktop) EXCEPT !.architectures_ver = Some(ver)] : ver \in {Str_620, Str_latest}}
    \union {[Options(QtLinuxDesktop) EXCEPT !.spec = spec, !.archives_query = Some(query)] :
                spec \in ListSpecs,
                query \in {<<>>, <<Str_620>>, <<Str_620, Str_gcc_64>>, <<<<"6", ".", "2">>, Str_gcc_64>>,
                           <<Str_latest, Str_gcc_64>>, <<Str_620, Str_gcc_64, Module_doesnotexist>>,
                           <<Str_620, Str_gcc_64, Module_qtcharts>>}}
    \union {[Options(archive_id) EXCEPT
                !.src_doc_examples_query = Some([cmd_type |-> cmd_type, version |-> Version_620,
                                                 is_modules_query |-> is_modules_query])] :
                archive_id \in {QtLinuxDesktop, ArchiveId(Str_qt, Str_linux, Str_android)},
                cmd_type \in {"src", "doc", "examples"}, is_modules_query \in BOOLEAN}
DispatchListings == {Page(<<>>), Page(<<Anchor(Href_qt6_620), Anchor(Href_tools_ifw)>>), Malformed}
DispatchManifests ==
    {Manifest(<<>>), Manifest(<<Element_qt620>>), Manifest(<<Element_qtcharts, Element_qt620>>),
     Manifest(<<Element_no_name>>), CorruptManifest,
     Manifest(<<Element(Tag(Some(<<"q", "t", ".", "q", "t", "6", ".", "6", "2", "0", ".", "d", "o", "c", ".", "q", "t", "c", "h", "a", "r", "t", "s">>)), Tag(Some(<<"q", "t", "c", "h", "a", "r", "t", "s", "-", "d", ".", "7", "z">>)), UpdateFile(Size_100))>>)}

InitDispatch ==
    /\ pc = "new"
    /\ meta = None
    /\ settings = Settings({})
    /\ args = NoArgs
    /\ frame = NoFrame
    /\ net = <<>>
    /\ ret = NoRet

NextDispatch ==
    \/ pc = "new" /\ \E o \in DispatchRequests : MetadataFactory_init(o)
    \/ Call_getList
    \/ to_version_524
    \/ fetch_tool_479
    \/ sde_722
    \/ pc = "fetch_versions_465" /\ \E html_doc \in DispatchListings : fetch_versions_465_returns(html_doc)
    \/ \E type \in TransportErrors : fetch_versions_465_raises(type)
    \/ pc = "fetch_tools_475" /\ \E html_doc \in DispatchListings : fetch_tools_475_returns(html_doc)
    \/ \E type \in TransportErrors : fetch_tools_475_raises(type)
    \/ pc = "fetch_module_metadata_625" /\ \E xml \in DispatchManifests : fetch_module_metadata_625_returns(xml)
    \/ \E type \in TransportErrors : fetch_module_metadata_625_raises(type)
    \/ pc = "fetch_arches_439" /\ \E xml \in DispatchManifests : fetch_arches_439_returns(xml)
    \/ \E type \in TransportErrors : fetch_arches_439_raises(type)
    \/ pc = "fetch_modules_638" /\ \E xml \in DispatchManifests : fetch_modules_638_returns(xml)
    \/ \E type \in TransportErrors : fetch_modules_638_raises(type)
    \/ pc = "fetch_modules_677" /\ \E content \in ProbeContents : fetch_modules_677_returns(content)
    \/ \E type \in TransportErrors : fetch_modules_677_raises(type)
    \/ CallEnds

SpecDispatch == InitDispatch /\ [][NextDispatch]_vars

(***************************************************************************)
(* Claims about the input errors and the dispatch, checked under           *)
(* SpecDispatch.                                                           *)
(***************************************************************************)
\* __init__ or getList has raised a CliInputError.
InputErrorRaised == pc \in {"failed", "done"} /\ ret.kind = "raise" /\ ret.exc.type = "CliInputError"

\* C13 as stated: every CliInputError the engine raises carries a list of
\* suggested actions that is not empty.
C13_InputErrorsCarrySuggestions == InputErrorRaised => ret.exc.suggested_action # <<>>

\* C13, amended: the CliInputError for requested modules that were not located
\* carries the suggestions of suggested_follow_up, at least one; the three
\* others (an archives query of fewer than 2 parameters, a version that does
\* not parse, "latest" without a matching version) carry none.
C13_OnlyMissingModulesCarrySuggestions ==
    InputErrorRaised =>
        IF ret.exc.message = "The requested modules were not located"
        THEN /\ pc = "done"
             /\ meta.request_type = "archives for modules"
             /\ ret.exc.suggested_action = suggested_follow_up(meta)
             /\ ret.exc.suggested_action # <<>>
        ELSE /\ ret.exc.message \in {"archives flag requires QT_VERSION and ARCHITECTURE", "ValueError",
                                     "There is no latest version of Qt with the criteria"}
             /\ ret.exc.message = "archives flag requires QT_VERSION and ARCHITECTURE" <=> pc = "failed"
             /\ ret.exc.suggested_action = <<>>

\* The module "doesnotexist" is asked for, without a spec, and the error carries
\* the three suggestions of the request for the archives of modules.
C13_Witness ==
    /\ InputErrorRaised
    /\ ret.exc.message = "The requested modules were not located"
    /\ ret.exc.not_found = <<Module_doesnotexist>>
    /\ Len(ret.exc.suggested_action) = 3

\* The request types, and the method each of them calls.
ActionOf ==
    [request_type \in {"tool long listing", "tool variant names", "tools", "latest version", "long modules",
                       "modules", "architectures", "archives for modules", "archives for qt",
                       "modules for src", "modules for doc", "modules for examples",
                       "archives for src", "archives for doc", "archives for examples", "versions"} |->
        CASE request_type = "tool long listing" -> "fetch_tool_long_listing"
          [] request_type = "tool variant names" -> "fetch_tool_modules"
          [] request_type = "tools" -> "fetch_tools"
          [] request_type = "latest version" -> "fetch_latest_version"
          [] request_type = "long modules" -> "fetch_long_modules"
          [] request_type = "modules" -> "fetch_modules"
          [] request_type = "architectures" -> "fetch_arches"
          [] request_type \in {"archives for modules", "archives for qt"} -> "fetch_archives"
          [] request_type \in {"modules for src", "modules for doc", "modules for examples"} -> "fetch_modules_sde"
          [] request_type \in {"archives for src", "archives for doc", "archives for examples"} -> "fetch_archives_sde"
          [] request_type = "versions" -> "fetch_versions"]

\* The places of the code a call of a method can be at.
PlacesOf(fn) ==
    CASE fn \in {"fetch_tool_long_listing", "fetch_tool_modules"} -> {"fetch_tool_479", "fetch_module_metadata_625"}
      [] fn = "fetch_tools" -> {"fetch_tools_475"}
      [] fn \in {"fetch_latest_version", "fetch_versions"} -> {"fetch_versions_465"}
      [] fn \in {"fetch_long_modules", "fetch_archives"} ->
             {"to_version_524", "fetch_versions_465", "fetch_module_metadata_625"}
      [] fn = "fetch_modules" -> {"to_version_524", "fetch_versions_465", "fetch_modules_638", "fetch_modules_677"}
      [] fn = "fetch_arches" -> {"to_version_524", "fetch_versions_465", "fetch_arches_439"}
      [] fn \in {"fetch_modules_sde", "fetch_archives_sde"} -> {"sde_722", "fetch_module_metadata_625"}

\* The instance has one request type of the closed set and the method of that
\* type, and a call is in the code of that method.
OneBranch ==
    pc \notin {"new", "failed"} =>
        /\ meta.request_type \in DOMAIN ActionOf
        /\ meta.action.fn = ActionOf[meta.request_type]
        /\ pc \in {"idle", "done"} \union PlacesOf(meta.action.fn)

\* C14: after its construction the instance has one request type of the
\* closed set with the method of that type, every step of a call of getList
\* is in the code of that method, and no step of getList, ending with a
\* result or with an exception, changes the request type, the action, the
\* archive id, the spec or the base url of the instance.
C14_OneBranchUnchanged == []OneBranch /\ [][pc # "new" => meta' = meta]_vars

\* A call of getList of a "modules" instance has failed after its probes
\* began: the instance is as it was constructed.
C14_Witness ==
    /\ pc = "done"
    /\ ret.kind = "raise"
    /\ Len(net) >= 2
    /\ meta = Construct([Options(QtLinuxDesktop) EXCEPT
                            !.modules_query = Some([version_str |-> <<"6", ".", "8", ".", "0">>, arch |-> Str_gcc_64])]).value
    /\ meta.request_type = "modules"

(***************************************************************************)
(* The long listings: fetch_tool_long_listing and fetch_long_modules, over *)
(* manifests whose elements have a Description.                            *)
(***************************************************************************)
Element_qtcharts_br == Described(Element_qtcharts, Tag(Some(<<"a", "<", "b", "r", ">", "b">>)))
Element_qtcharts_plain == Described(Element_qtcharts, Tag(Some(<<"p", "l", "a", "i", "n">>)))
Element_qtsvg_brbr == Described(Element_qtsvg, Tag(Some(<<"<", "b", "r", ">", "<", "b", "r", ">">>)))
Element_qtsvg_blank == Described(Element_qtsvg, Tag(None))
Element_clang_partial == Described(Element_qtcharts_clang, Tag(Some(<<"x", "<", "b", "r">>)))
LongElements == {Element_qtcharts_br, Element_qtcharts_plain, Element_qtsvg_brbr, Element_qtsvg_blank,
                 Element_clang_partial, Element_qt620, Element_qtcharts_empty, Element_no_name}
LongManifests == {Manifest(elements) : elements \in SeqsUpTo(LongElements, MaxElements)} \union {CorruptManifest}
LongRequests ==
    {[Options(ToolsLinuxDesktop) EXCEPT !.tool_name = Some(<<"t", "o", "o", "l", "s", "_", "i", "f", "w">>), !.is_long_listing = TRUE],
     [Options(QtLinuxDesktop) EXCEPT !.modules_query = Some([version_str |-> Str_620, arch |-> Str_gcc_64]),
                                     !.is_long_listing = TRUE]}

InitLong ==
    /\ pc = "idle"
    /\ meta \in {Construct(o).value : o \in LongRequests}
    /\ settings = Settings({})
    /\ args = NoArgs
    /\ frame = NoFrame
    /\ net = <<>>
    /\ ret = NoRet

NextLong ==
    \/ Call_getList
    \/ to_version_524
    \/ fetch_tool_479
    \/ pc = "fetch_module_metadata_625" /\ \E xml \in LongManifests : fetch_module_metadata_625_returns(xml)
    \/ \E type \in TransportErrors : fetch_module_metadata_625_raises(type)
    \/ CallEnds

SpecLong == InitLong /\ [][NextLong]_vars

(***************************************************************************)
(* Claims about the long listings, checked under SpecLong.                 *)
(***************************************************************************)
\* A long listing has returned its attribute mapping.
LongListed ==
    /\ Done
    /\ ret.kind = "return"
    /\ meta.action.fn \in {"fetch_tool_long_listing", "fetch_long_modules"}

\* The packages of the mapping that was returned.
ListedPackages ==
    IF meta.action.fn = "fetch_tool_long_listing" THEN Range(ret.value.ToolData)
    ELSE {entry.value : entry \in ret.value.ModuleData}

\* The element of the manifest a listed package was parsed from: the last
\* element of that Name that the listing did not pass over.
SourceOf(package) ==
    LET elements == net[Len(net)].content.elements
        kept(k) == /\ elements[k].Name # None
                   /\ elements[k].Name.text = package.name
                   /\ \/ meta.action.fn = "fetch_long_modules"
                      \/ has_nonempty_downloads(elements[k]) = Returned(TRUE)
    IN  elements[CHOOSE k \in 1..Len(elements) : kept(k) /\ \A j \in (k + 1)..Len(elements) : ~kept(j)]

\* The text of the Description of an element, None for an element without
\* one.
DescriptionOf(element) == IF element.Description = None THEN None ELSE element.Description.text

\* C21 as stated: every Description of the mapping a long listing returns is
\* identical to the value parsed from the manifest, line-break markers
\* included.
C21_DescriptionUnaltered ==
    LongListed => \A package \in ListedPackages : package.Description = DescriptionOf(SourceOf(package))

\* C21, amended: every Description of the mapping a long listing returns is
\* the value parsed from the manifest with each line-break marker "<br>"
\* replaced by a newline; it is identical to the parsed value exactly when
\* that value holds no marker, and no marker is left in the mapping.
C21_DescriptionBreaksBecomeNewlines ==
    LongListed =>
        \A package \in ListedPackages :
            LET parsed == DescriptionOf(SourceOf(package))
            IN  /\ parsed = None => package.Description = None
                /\ parsed # None =>
                    /\ package.Description # None
                    /\ package.Description.some = Replace(parsed.some, Str_br, Newline)
                    /\ ~Contains(package.Description.some, Str_br)
                    /\ ~Contains(parsed.some, Str_br) <=> package.Description = parsed

\* A long listing returns a package whose Description in the manifest holds a
\* marker, and one whose Description it returns as it was parsed.
C21_Witness ==
    /\ LongListed
    /\ \E package \in ListedPackages :
           /\ DescriptionOf(SourceOf(package)) # None
           /\ Contains(DescriptionOf(SourceOf(package)).some, Str_br)
           /\ package.Description.some = <<"a">> \o Newline \o <<"b">>
    /\ \E package \in ListedPackages :
           /\ DescriptionOf(SourceOf(package)) # None
           /\ package.Description = DescriptionOf(SourceOf(package))

(***************************************************************************)
(* The round trip of the compact version string: _get_qt_version_str and   *)
(* then get_semantic_version of the string it returned.                    *)
(***************************************************************************)
\* The versions encoded: every major, minor and patch up to the bounds, and
\* two patches of three digits.
RoundTripMajor == 10
RoundTripMinor == 100
RoundTripPatch == 12
RoundTripVersions ==
    {MakeVersion(major, minor, patch, prerelease) :
        major \in 0..RoundTripMajor, minor \in 0..RoundTripMinor,
        patch \in 0..RoundTripPatch \union {100, 123}, prerelease \in BOOLEAN}

\* lines 118-159: get_semantic_version(qt_ver, False) of the string
\* _get_qt_version_str returned; the frame keeps the version that was encoded
Call_get_semantic_version_of_str ==
    /\ pc = "done"
    /\ args.op = "_get_qt_version_str"
    /\ ret.kind = "return"
    /\ pc' = "done"
    /\ frame' = [op |-> "round_trip", version |-> args.version]
    /\ args' = [op |-> "get_semantic_version", qt_ver |-> ret.value, is_preview |-> FALSE]
    /\ ret' = Returned(get_semantic_version(ret.value, FALSE))
    /\ UNCHANGED <<meta, settings, net>>

InitRoundTrip ==
    /\ pc = "idle"
    /\ meta \in {Construct(Options(archive_id)).value : archive_id \in {QtLinuxDesktop, ToolsLinuxDesktop}}
    /\ settings = Settings({})
    /\ args = NoArgs
    /\ frame = NoFrame
    /\ net = <<>>
    /\ ret = NoRet

NextRoundTrip ==
    \/ pc = "idle" /\ \E version \in RoundTripVersions : Call_get_qt_version_str(version)
    \/ Call_get_semantic_version_of_str
    \/ CallEnds

SpecRoundTrip == InitRoundTrip /\ [][NextRoundTrip]_vars

(***************************************************************************)
(* Claims about the round trip, checked under SpecRoundTrip.               *)
(***************************************************************************)
\* The string of a version has been decoded.
RoundTripDone == Done /\ frame.op = "round_trip" /\ args.op = "get_semantic_version"

\* C22: for every version that is no prerelease, with major in 1..9 and minor
\* in 0..99, get_semantic_version(_get_qt_version_str(v), False) is v when
\* minor >= 10 or patch <= 9, 5.9.0 (encoded as "59") included; when
\* minor <= 9 and patch >= 10 the string is not decoded back to v.
C22_CompactRoundTrip ==
    RoundTripDone
    => LET v == frame.version
       IN  (~v.prerelease /\ v.major \in 1..9 /\ v.minor \in 0..99)
           => /\ (v.minor >= 10 \/ v.patch <= 9) => ret = Returned(v)
              /\ (v.minor <= 9 /\ v.patch >= 10) => ret # Returned(v)
              /\ v = MakeVersion(5, 9, 0, FALSE) => args.qt_ver = <<"5", "9">>

\* 5.12.11 has come back from "51211".
C22_Witness ==
    /\ RoundTripDone
    /\ frame.version = MakeVersion(5, 12, 11, FALSE)
    /\ args.qt_ver = <<"5", "1", "2", "1", "1">>
    /\ ret = Returned(frame.version)

\* 5.9.0 has come back from "59".
C22_Witness59 ==
    /\ RoundTripDone
    /\ frame.version = MakeVersion(5, 9, 0, FALSE)
    /\ args.qt_ver = <<"5", "9">>
    /\ ret = Returned(frame.version)

\* 5.9.10 was encoded as "5910", which was decoded as 5.91.0.
C22_WitnessOutside ==
    /\ RoundTripDone
    /\ frame.version = MakeVersion(5, 9, 10, FALSE)
    /\ args.qt_ver = <<"5", "9", "1", "0">>
    /\ ret = Returned(MakeVersion(5, 91, 0, FALSE))

====
